---------------------------- MODULE Spec2Model ----------------------------
(***************************************************************************)
(* LoongArch LVZ (virtualization) core of QEMU-LVZ: VM-entry/exit state    *)
(* machine, host/guest CSR banks with the CSR mediator, GID-tagged TLB     *)
(* with its instruction helpers, and the address translation engine.       *)
(*                                                                         *)
(* Representation.  A 64-bit register that the code reads through          *)
(* FIELD_EX64/FIELD_DP64 is a record with one component per bit field.     *)
(* A 64-bit address is a record [hi, lo]: hi is bits 63..48, lo is bits    *)
(* 47..0 (the addresses used keep lo below 2^31).  The CPU state           *)
(* CPULoongArchState is the record env; last records the helper that ran   *)
(* last, its arguments, its return value and the CPU state before it.      *)
(***************************************************************************)
EXTENDS Integers, Sequences, FiniteSets, TLC

VARIABLES env, last, steps

vars == <<env, last, steps>>

(***************************************************************************)
(* Bounds of the model                                                     *)
(***************************************************************************)
\* helpers executed in one behaviour
MaxSteps == 2
\* guest ids are 0..MaxGid
MaxGid == 2
\* geometry of the TLB, scaled down (the code has 8 ways, 256 sets, 64 MTLB)
STLB_WAYS == 2
STLB_SETS == 2
LOONGARCH_MTLB == 2

LOONGARCH_STLB == STLB_WAYS * STLB_SETS
LOONGARCH_TLB_MAX == LOONGARCH_STLB + LOONGARCH_MTLB

GIDs == 0 .. MaxGid

(***************************************************************************)
(* Program constants                                                       *)
(***************************************************************************)
EXCCODE_PIL == 1
EXCCODE_PIS == 2
EXCCODE_PIF == 3
EXCCODE_PME == 4
EXCCODE_PNR == 5
EXCCODE_PNX == 6
EXCCODE_PPI == 7
EXCCODE_ADEF == 8
EXCCODE_ADEM == 72
EXCCODE_INE == 13
EXCCODE_IPE == 14
EXCCODE_HVC == 22
EXCP_NONE == 0 - 1
EXCP_HLT == 65537

VMEXIT_MMIO == 1
VMEXIT_INT == 2
VMEXIT_TIMER == 3
VMEXIT_IOCSR == 4
VMEXIT_CSRR == 5
VMEXIT_CSRW == 6
VMEXIT_CSRX == 7
VMEXIT_HYPERCALL == 8
VMEXIT_CPUCFG == 9
VMEXIT_TLB == 10
VMEXIT_CACHE == 11

MMU_DATA_LOAD == 0
MMU_DATA_STORE == 1
MMU_INST_FETCH == 2

MMU_KERNEL_IDX == 0
MMU_USER_IDX == 3
MMU_DA_IDX == 4

ACCESS_TYPE_READ == 1
ACCESS_TYPE_WRITE == 2
ACCESS_TYPE_EXEC == 4

R_TLB_MISC_VPPN_SHIFT == 13

(***************************************************************************)
(* Values                                                                  *)
(***************************************************************************)
Pow2(n) == 2 ^ n

Addr(h, l) == [hi |-> h, lo |-> l]
AddrZero == Addr(0, 0)
\* the reset vector
ResetPC == Addr(0, 469762048)

\* one even/odd page descriptor (TLBENTRY / TLBENTRY_64 fields)
TlbLo(v, d, plv, g, ppn, nx, nr, rplv) ==
    [V |-> v, D |-> d, PLV |-> plv, G |-> g, PPN |-> ppn,
     NX |-> nx, NR |-> nr, RPLV |-> rplv]
TlbLoZero == TlbLo(0, 0, 0, 0, 0, 0, 0, 0)

\* one TLB entry (struct LoongArchTLB; TLB_MISC fields)
TlbMiscZero == [E |-> 0, ASID |-> 0, VPPN |-> 0, PS |-> 0, GID |-> 0]
TlbZero == [tlb_misc |-> TlbMiscZero, tlb_entry0 |-> TlbLoZero, tlb_entry1 |-> TlbLoZero]

VMExitContextZero ==
    [fault_gpa |-> AddrZero, fault_gva |-> AddrZero, gid |-> 0,
     exit_reason |-> 0, access_type |-> 0, is_tlb_refill |-> FALSE]

(***************************************************************************)
(* CPULoongArchState                                                       *)
(***************************************************************************)
Val(n) == [val |-> n]

\* the registers both CSR banks hold (env->CSR_x and env->GCSR_x), all zero
CsrBankZero ==
    [CRMD |-> [PLV |-> 0, IE |-> 0, DA |-> 0, PG |-> 0],
     PRMD |-> [PPLV |-> 0, PIE |-> 0],
     MISC |-> [VA32 |-> 0, DRDTL |-> 0],
     ESTAT |-> [IS |-> 0, ECODE |-> 0, ESUBCODE |-> 0],
     ERA |-> AddrZero, BADV |-> AddrZero, BADI |-> Val(0), EENTRY |-> AddrZero,
     TLBIDX |-> [INDEX |-> 0, PS |-> 0, NE |-> 0],
     TLBEHI |-> [VPPN |-> 0],
     TLBELO0 |-> TlbLoZero, TLBELO1 |-> TlbLoZero,
     ASID |-> [ASID |-> 0, ASIDBITS |-> 0],
     PGDL |-> AddrZero, PGDH |-> AddrZero, PGD |-> AddrZero,
     STLBPS |-> [PS |-> 0],
     CPUID |-> Val(0), PRCFG1 |-> Val(0),
     TID |-> Val(0), TCFG |-> Val(0), TVAL |-> Val(0), CNTC |-> Val(0),
     TICLR |-> Val(0), LLBCTL |-> Val(0), IMPCTL1 |-> Val(0),
     SAVE0 |-> Val(0),
     TLBRENTRY |-> AddrZero, TLBRBADV |-> AddrZero,
     TLBRERA |-> [ISTLBR |-> 0, PC |-> [hi |-> 0, lo4 |-> 0]],
     TLBRSAVE |-> Val(0),
     TLBRELO0 |-> TlbLoZero, TLBRELO1 |-> TlbLoZero,
     TLBREHI |-> [PS |-> 0, VPPN |-> 0],
     TLBRPRMD |-> [PPLV |-> 0, PIE |-> 0],
     MERRCTL |-> Val(0), DBG |-> [DST |-> 0],
     DMW0 |-> [PLV |-> 0, VSEG |-> 0], DMW1 |-> [PLV |-> 0, VSEG |-> 0],
     DMW2 |-> [PLV |-> 0, VSEG |-> 0], DMW3 |-> [PLV |-> 0, VSEG |-> 0]]

\* the virtualization registers, which exist in the host bank only
LvzCsrZero ==
    [GSTAT |-> [VM |-> 0, PVM |-> 0, GID |-> 0],
     GCFG |-> [TOEP |-> 0, TOE |-> 0, TIT |-> 0, TITO |-> 0, TITP |-> 0,
               SITO |-> 0, SITP |-> 0],
     GTLBC |-> [USETGID |-> 0, TOTI |-> 0, TGID |-> 0],
     TRGP |-> AddrZero]

\* function (record) f with the components of g added
Join(f, g) ==
    [k \in (DOMAIN f) \cup (DOMAIN g) |-> IF k \in DOMAIN g THEN g[k] ELSE f[k]]

TLBIndexes == 0 .. (LOONGARCH_TLB_MAX - 1)

\* the CPU after reset: direct-address mode, every TLB entry E=0, GSTAT.VM=0
Reset(lvz) ==
    [cpucfg2_LVZ |-> lvz,
     lvz_enabled |-> FALSE,
     pc |-> ResetPC,
     CSR |-> Join([CsrBankZero EXCEPT !.CRMD.DA = 1, !.STLBPS.PS = 14,
                                   !.ASID.ASIDBITS = 10], LvzCsrZero),
     GCSR |-> CsrBankZero,
     tlb |-> [i \in TLBIndexes |-> TlbZero],
     \* the memory that follows env->tlb[], as env->tlb[LOONGARCH_TLB_MAX] sees it
     beyond |-> TlbZero,
     vm_exit_ctx |-> VMExitContextZero,
     lladdr |-> 0,
     exception_index |-> EXCP_NONE,
     halted |-> 0,
     cpu_index |-> 0,
     timer_stored |-> FALSE,
     irq_lowered |-> FALSE,
     vm_exit_path |-> "none",
     flushes |-> {},
     set_page |-> {}]

(***************************************************************************)
(* Mode predicates (cpu.h)                                                 *)
(***************************************************************************)
has_lvz_capability(e) == e.cpucfg2_LVZ

is_guest_mode(e) == has_lvz_capability(e) /\ e.CSR.GSTAT.VM = 1

get_guest_id(e) == e.CSR.GSTAT.GID

is_virtualization_mode_active(e) == has_lvz_capability(e) /\ e.lvz_enabled

get_current_effective_gid(e) ==
    IF ~is_virtualization_mode_active(e) THEN 0
    ELSE IF is_guest_mode(e) THEN get_guest_id(e)
    ELSE 0

is_guest_execution_context(e) ==
    is_virtualization_mode_active(e) /\ is_guest_mode(e)

is_hypervisor_execution_context(e) ==
    is_virtualization_mode_active(e) /\ ~is_guest_mode(e)

is_second_level_translation_enabled(e) ==
    is_guest_mode(e) /\ has_lvz_capability(e) /\ e.lvz_enabled

should_trigger_vm_exit(e, exit_reason) ==
    IF ~is_guest_execution_context(e) THEN FALSE
    ELSE CASE exit_reason = VMEXIT_MMIO -> e.CSR.GCFG.TOEP = 1
           [] exit_reason = VMEXIT_TIMER -> e.CSR.GCFG.TOE = 1
           [] exit_reason = VMEXIT_IOCSR -> e.CSR.GCFG.TIT = 1
           [] exit_reason \in {VMEXIT_CSRR, VMEXIT_CSRW, VMEXIT_CSRX} -> e.CSR.GCFG.TOEP = 1
           [] exit_reason = VMEXIT_HYPERCALL -> TRUE
           [] exit_reason = VMEXIT_TLB -> e.CSR.GTLBC.TOTI = 1
           [] OTHER -> e.CSR.GCFG.TOEP = 1

is_va32(e) ==
    LET plv == e.CSR.CRMD.PLV
    IN  plv >= 1 /\ (e.CSR.MISC.VA32 \div Pow2(plv)) % 2 = 1

\* (uint32_t)value of an address
Low32(a) == Addr(0, a.lo)

set_pc(e, value) == [e EXCEPT !.pc = IF is_va32(e) THEN Low32(value) ELSE value]

\* do_raise_exception: records the exception and leaves the helper (noreturn)
do_raise_exception(e, exception) == [e EXCEPT !.exception_index = exception]

(***************************************************************************)
(* The primitives of the emulator core the helpers call: flushing the      *)
(* host-side translation cache.  env.flushes collects the flushes the      *)
(* running helper has requested.                                           *)
(***************************************************************************)
tlb_flush(e) ==
    [e EXCEPT !.flushes = @ \cup {[kind |-> "all", addr |-> 0, size |-> 0, idx |-> 0]}]

tlb_flush_by_mmuidx(e, bit) ==
    [e EXCEPT !.flushes = @ \cup {[kind |-> "mmuidx", addr |-> 0, size |-> 0, idx |-> bit]}]

tlb_flush_range_by_mmuidx(e, addr, size, mmu_idx) ==
    [e EXCEPT !.flushes =
                  @ \cup {[kind |-> "range", addr |-> addr, size |-> size, idx |-> mmu_idx]}]

cpu_mmu_index(e) == IF e.CSR.CRMD.PG = 1 THEN e.CSR.CRMD.PLV ELSE MMU_DA_IDX

(***************************************************************************)
(* VM-exit and VM-entry                                                    *)
(***************************************************************************)
\* prepare_vm_exit_context storing the faulting GVA in CSR_TRGP
prepare_vm_exit_context_gva(e, fault_gpa, fault_gva, exit_reason, access_type) ==
    IF ~is_guest_execution_context(e) THEN e
    ELSE [e EXCEPT !.vm_exit_ctx =
                       [fault_gpa |-> fault_gpa, fault_gva |-> fault_gva,
                        gid |-> get_guest_id(e), exit_reason |-> exit_reason,
                        access_type |-> access_type,
                        is_tlb_refill |-> (exit_reason = VMEXIT_TLB)],
                   !.CSR.TRGP = fault_gva]

prepare_vm_exit_context(e, fault_gpa, fault_gva, exit_reason, access_type) ==
    IF ~is_guest_execution_context(e) THEN e
    ELSE [e EXCEPT !.vm_exit_ctx =
                       [fault_gpa |-> fault_gpa, fault_gva |-> fault_gva,
                        gid |-> get_guest_id(e), exit_reason |-> exit_reason,
                        access_type |-> access_type,
                        is_tlb_refill |-> (exit_reason = VMEXIT_TLB)],
                   !.CSR.TRGP = fault_gpa]

helper_vm_exit_cpu(e, exit_reason) ==
    IF ~is_guest_execution_context(e) THEN e
    ELSE do_raise_exception(
           [e EXCEPT !.vm_exit_ctx =
                         [fault_gpa |-> AddrZero, fault_gva |-> e.pc,
                          gid |-> get_guest_id(e), exit_reason |-> exit_reason,
                          access_type |-> 0, is_tlb_refill |-> FALSE],
                     !.CSR.GSTAT.PVM = e.CSR.GSTAT.VM,
                     !.CSR.GSTAT.VM = 0,
                     !.GCSR.PRMD.PPLV = e.CSR.CRMD.PLV,
                     !.GCSR.PRMD.PIE = e.CSR.CRMD.IE,
                     !.GCSR.ERA = e.pc,
                     !.GCSR.ESTAT.ECODE = EXCCODE_HVC,
                     !.CSR.CRMD.PLV = 0,
                     !.CSR.CRMD.IE = 0,
                     !.vm_exit_path = "helper_vm_exit_cpu"],
           EXCCODE_HVC)

helper_vm_exit_with_fault(e, exit_reason, fault_gva, fault_gpa, access_type) ==
    IF ~is_guest_execution_context(e) THEN e
    ELSE LET e1 == [e EXCEPT !.vm_exit_ctx =
                                 [fault_gpa |-> fault_gpa, fault_gva |-> fault_gva,
                                  gid |-> get_guest_id(e), exit_reason |-> exit_reason,
                                  access_type |-> access_type,
                                  is_tlb_refill |-> (exit_reason = VMEXIT_TLB)],
                             !.CSR.BADV = fault_gva,
                             !.GCSR.BADV = fault_gva]
             e2 == IF exit_reason \in {VMEXIT_MMIO, VMEXIT_TLB}
                   THEN [e1 EXCEPT !.CSR.TRGP = fault_gpa] ELSE e1
         IN  helper_vm_exit_cpu(e2, exit_reason)

helper_vm_exit(e, exit_reason) ==
    IF is_guest_execution_context(e)
    THEN do_raise_exception(
           [e EXCEPT !.CSR.GSTAT.PVM = e.CSR.GSTAT.VM,
                     !.CSR.GSTAT.VM = 0,
                     !.vm_exit_ctx.exit_reason = exit_reason,
                     !.vm_exit_ctx.fault_gva = e.CSR.BADV,
                     !.vm_exit_path = "helper_vm_exit"],
           EXCCODE_HVC)
    ELSE e

loongarch_trigger_vm_exit(e, exit_reason, fault_gpa, fault_gva) ==
    IF ~is_guest_mode(e) THEN e
    ELSE LET e1 == prepare_vm_exit_context(e, fault_gpa, fault_gva, exit_reason, 0)
         IN  [e1 EXCEPT !.CSR.GSTAT.VM = 0,
                        !.vm_exit_path = "loongarch_trigger_vm_exit"]

\* vm_enter without the hypervisor-context guard
helper_vm_enter_unguarded(e) == [e EXCEPT !.CSR.GSTAT.VM = 1]

helper_vm_enter(e) ==
    IF is_hypervisor_execution_context(e)
    THEN [e EXCEPT !.CSR.GSTAT.VM = 1]
    ELSE e

\* FIELD_EX64(tlbrera, CSR_TLBRERA, PC) << 2: the field holds the pc without
\* its two low bits
TLBRERA_PC_shl2(pcfield) == Addr(pcfield.hi, pcfield.lo4 * 4)

\* bit n of a small bit-vector field
Bit(x, n) == (x \div Pow2(n)) % 2

helper_ertn(e) ==
    LET is_guest == is_guest_execution_context(e)
        refill == e.CSR.TLBRERA.ISTLBR = 1
        bank == IF is_guest THEN e.GCSR ELSE e.CSR
        csr_pplv == IF refill THEN bank.TLBRPRMD.PPLV ELSE bank.PRMD.PPLV
        csr_pie == IF refill THEN bank.TLBRPRMD.PIE ELSE bank.PRMD.PIE
        return_address == IF refill THEN TLBRERA_PC_shl2(bank.TLBRERA.PC) ELSE bank.ERA
        e1 == IF refill
              THEN set_pc([e EXCEPT !.CSR.TLBRERA.ISTLBR = 0,
                                    !.CSR.CRMD.DA = 0,
                                    !.CSR.CRMD.PG = 1], return_address)
              ELSE set_pc(e, return_address)
        e2 == [e1 EXCEPT !.CSR.CRMD.PLV = csr_pplv, !.CSR.CRMD.IE = csr_pie]
        e3 == IF is_guest THEN [e2 EXCEPT !.CSR.GSTAT.VM = e2.CSR.GSTAT.PVM] ELSE e2
    IN  [e3 EXCEPT !.lladdr = 1]

helper_idle(e) == do_raise_exception([e EXCEPT !.halted = 1], EXCP_HLT)

helper_guest_exception(e, exception, pc) ==
    IF is_guest_execution_context(e)
    THEN [e EXCEPT !.GCSR.PRMD.PPLV = e.CSR.CRMD.PLV,
                   !.GCSR.PRMD.PIE = e.CSR.CRMD.IE,
                   !.GCSR.ERA = pc,
                   !.GCSR.ESTAT.ECODE = exception,
                   !.CSR.CRMD.IE = 0]
    ELSE do_raise_exception(e, exception)

helper_vm_context_switch(e, target_gid) ==
    IF is_hypervisor_execution_context(e) /\ get_guest_id(e) # target_gid
    THEN tlb_flush_by_mmuidx([e EXCEPT !.CSR.GSTAT.GID = target_gid], get_guest_id(e))
    ELSE e

helper_vm_interrupt(e, int_vec) ==
    IF is_guest_execution_context(e)
    THEN IF int_vec < 64
         THEN IF e.CSR.CRMD.IE = 1
              THEN LET e1 == [e EXCEPT !.GCSR.ESTAT.IS = int_vec,
                                       !.GCSR.PRMD.PPLV = e.CSR.CRMD.PLV,
                                       !.GCSR.PRMD.PIE = e.CSR.CRMD.IE,
                                       !.GCSR.ERA = e.pc]
                       e2 == set_pc(e1, e1.GCSR.EENTRY)
                   IN  [e2 EXCEPT !.CSR.CRMD.IE = 0]
              ELSE e
         ELSE helper_vm_exit(e, VMEXIT_INT)
    ELSE [e EXCEPT !.CSR.ESTAT.IS = int_vec % Pow2(13)]

helper_vm_idle(e) ==
    IF is_guest_execution_context(e) /\ is_guest_mode(e)
    THEN helper_vm_exit(e, VMEXIT_CPUCFG)
    ELSE helper_idle(e)

\* returns <<env, value>>; the counter itself is the timer device's
helper_rdtime_d(e) ==
    LET plv == e.CSR.CRMD.PLV
    IN  IF is_guest_execution_context(e)
        THEN IF Bit(e.GCSR.MISC.DRDTL, plv) = 1
             THEN <<helper_vm_exit(e, VMEXIT_TIMER), "0">>
             ELSE <<e, "counter">>
        ELSE IF Bit(e.CSR.MISC.DRDTL, plv) = 1
             THEN <<do_raise_exception(e, EXCCODE_IPE), "none">>
             ELSE <<e, "counter">>

\* returns <<env, value>>; the value is named by the cpucfg word it comes from
helper_cpucfg_vm(e, rj) ==
    IF is_guest_execution_context(e) /\ rj = 2
    THEN <<e, "cpucfg2 with LVZ=0">>
    ELSE IF is_guest_execution_context(e) /\ rj > 15
    THEN <<helper_vm_exit(e, VMEXIT_CPUCFG), "0">>
    ELSE <<e, IF rj = 2 /\ e.cpucfg2_LVZ THEN "cpucfg2 with LVZ=1"
              ELSE IF rj = 2 THEN "cpucfg2 with LVZ=0"
              ELSE "cpucfg other">>

helper_vm_save_state(e) ==
    IF ~is_guest_execution_context(e) THEN e
    ELSE [e EXCEPT !.GCSR =
            [k \in DOMAIN e.GCSR |->
               IF k \in {"CRMD", "ASID", "PGDL", "PGDH", "BADV", "BADI", "EENTRY",
                         "TLBIDX", "TLBEHI", "TLBELO0", "TLBELO1"}
               THEN e.CSR[k] ELSE e.GCSR[k]]]

helper_vm_restore_state(e) ==
    IF ~is_hypervisor_execution_context(e) THEN e
    ELSE [e EXCEPT !.CSR =
            [k \in DOMAIN e.CSR |->
               IF k \in {"CRMD", "ASID", "PGDL", "PGDH", "BADV", "BADI", "EENTRY",
                         "TLBIDX", "TLBEHI", "TLBELO0", "TLBELO1"}
               THEN e.GCSR[k] ELSE e.CSR[k]]]

loongarch_init_second_level_translation(e) ==
    IF ~has_lvz_capability(e) THEN e
    ELSE [e EXCEPT !.lvz_enabled = TRUE, !.vm_exit_ctx = VMExitContextZero]

enable_second_level_translation(e) ==
    IF has_lvz_capability(e) THEN [e EXCEPT !.lvz_enabled = TRUE] ELSE e

disable_second_level_translation(e) == [e EXCEPT !.lvz_enabled = FALSE]

(***************************************************************************)
(* CSR access with the LVZ policy (csr_helper.c)                           *)
(*                                                                         *)
(* A CSR number is the register's name; "UNKNOWN" is a number no switch    *)
(* lists.  Of each group of registers the switches treat alike (SAVE0..15, *)
(* DMW0..3, PRCFG1..3, the machine-error and debug blocks, ...) the model  *)
(* keeps one or two.  The mask rd of an exchange selects whole fields.     *)
(***************************************************************************)
helper_csrrd_pgd(e) ==
    LET v == IF e.CSR.TLBRERA.ISTLBR = 1 THEN e.CSR.TLBRBADV ELSE e.CSR.BADV
    IN  IF v.hi >= 32768 THEN e.CSR.PGDH ELSE e.CSR.PGDL

helper_csrrd_cpuid(e) ==
    <<[e EXCEPT !.CSR.CPUID = Val(e.cpu_index)], Val(e.cpu_index)>>

\* cpu_loongarch_get_constant_timer_ticks: the value is the timer device's
helper_csrrd_tval(e) == [timer |-> "ticks"]

helper_csrwr_estat(e, val) ==
    <<[e EXCEPT !.CSR.ESTAT.IS = (e.CSR.ESTAT.IS \div 4) * 4 + (val.IS % 4)],
      e.CSR.ESTAT>>

\* helper_csrwr_asid flushing on every write
helper_csrwr_asid_flush(e, val) ==
    <<tlb_flush([e EXCEPT !.CSR.ASID.ASID = val.ASID % Pow2(10)]), e.CSR.ASID>>

helper_csrwr_asid(e, val) ==
    LET e1 == [e EXCEPT !.CSR.ASID.ASID = val.ASID % Pow2(10)]
    IN  <<IF e.CSR.ASID # e1.CSR.ASID THEN tlb_flush(e1) ELSE e1,
          e.CSR.ASID>>

\* cpu_loongarch_store_constant_timer_config stores TCFG and programs the timer
helper_csrwr_tcfg(e, val) ==
    <<[e EXCEPT !.CSR.TCFG = val, !.timer_stored = TRUE], e.CSR.TCFG>>

helper_csrwr_ticlr(e, val) ==
    <<IF val.val % 2 = 1 THEN [e EXCEPT !.irq_lowered = TRUE] ELSE e, Val(0)>>

check_csr_access_permission(e, csr, is_write) ==
    IF ~is_guest_mode(e) THEN TRUE
    ELSE IF ~has_lvz_capability(e) THEN FALSE
    ELSE CASE csr \in {"CRMD", "PRMD", "EUEN", "MISC", "ECFG", "ERA", "BADV",
                       "BADI", "EENTRY"} -> TRUE
           [] csr \in {"TLBIDX", "TLBEHI", "TLBELO0", "TLBELO1", "ASID", "PGDL",
                       "PGDH", "PGD", "PWCL", "PWCH", "STLBPS", "RVACFG"} -> TRUE
           [] csr \in {"TID", "TCFG", "TVAL", "CNTC"} ->
                  IF is_write THEN e.CSR.GCFG.TITO = 1 ELSE e.CSR.GCFG.TITP = 1
           [] csr = "TICLR" -> FALSE
           [] csr = "ESTAT" ->
                  IF is_write THEN e.CSR.GCFG.SITO = 1 ELSE e.CSR.GCFG.SITP = 1
           [] csr \in {"CPUID", "PRCFG1", "PRCFG2", "PRCFG3"} -> ~is_write
           [] csr \in {"SAVE0", "LLBCTL"} -> TRUE
           [] csr \in {"TLBRENTRY", "TLBRBADV", "TLBRERA", "TLBRSAVE", "TLBRELO0",
                       "TLBRELO1", "TLBREHI", "TLBRPRMD", "MERRCTL", "MERRINFO1",
                       "MERRINFO2", "MERRENTRY", "MERRERA", "MERRSAVE", "CTAG"} -> FALSE
           [] csr \in {"DMW0", "DMW1", "DMW2", "DMW3"} -> TRUE
           [] csr \in {"IMPCTL1", "IMPCTL2"} -> FALSE
           [] csr \in {"DBG", "DERA", "DSAVE"} -> FALSE
           [] OTHER -> FALSE

trigger_csr_vm_exit(e, csr, is_write, val) ==
    do_raise_exception([e EXCEPT !.CSR.GSTAT.VM = 0,
                                 !.vm_exit_path = "trigger_csr_vm_exit"],
                       EXCCODE_HVC)

\* returns <<env, value>>
helper_csrrd_with_lvz(e, csr) ==
    IF ~check_csr_access_permission(e, csr, FALSE)
    THEN <<trigger_csr_vm_exit(e, csr, FALSE, Val(0)), Val(0)>>
    ELSE IF csr = "CPUID" THEN helper_csrrd_cpuid(e)
    ELSE IF csr = "TVAL" THEN <<e, helper_csrrd_tval(e)>>
    ELSE IF csr = "PGD" THEN <<e, helper_csrrd_pgd(e)>>
    ELSE IF csr \in {"CRMD", "PRMD", "MISC", "ESTAT", "ERA", "BADV", "BADI",
                     "EENTRY", "TLBIDX", "TLBEHI", "TLBELO0", "TLBELO1", "ASID",
                     "PGDL", "PGDH", "STLBPS", "PRCFG1", "TID", "TCFG", "CNTC",
                     "TICLR", "LLBCTL", "IMPCTL1", "SAVE0", "DMW0", "DMW1", "DMW2",
                     "DMW3"}
    THEN <<e, e.CSR[csr]>>
    ELSE <<trigger_csr_vm_exit(e, csr, FALSE, Val(0)), Val(0)>>

\* returns <<env, value>>
helper_csrwr_with_lvz(e, val, csr) ==
    IF ~check_csr_access_permission(e, csr, TRUE)
    THEN <<trigger_csr_vm_exit(e, csr, TRUE, val), Val(0)>>
    ELSE IF csr = "ESTAT" THEN helper_csrwr_estat(e, val)
    ELSE IF csr = "ASID" THEN helper_csrwr_asid(e, val)
    ELSE IF csr = "TCFG" THEN helper_csrwr_tcfg(e, val)
    ELSE IF csr = "TICLR" THEN helper_csrwr_ticlr(e, val)
    ELSE IF csr \in {"CRMD", "PRMD", "MISC", "ERA", "BADV", "BADI", "EENTRY",
                     "TLBIDX", "TLBEHI", "TLBELO0", "TLBELO1", "PGDL", "PGDH",
                     "PGD", "STLBPS", "TID", "CNTC", "LLBCTL", "IMPCTL1",
                     "SAVE0", "DMW0", "DMW1", "DMW2", "DMW3"}
    THEN <<[e EXCEPT !.CSR[csr] = val], e.CSR[csr]>>
    ELSE <<trigger_csr_vm_exit(e, csr, TRUE, val), Val(0)>>

\* (old_val & ~rd) | (rj & rd), rd given as the set of fields it covers
MaskMerge(old_val, rj, rd) ==
    [f \in DOMAIN old_val |-> IF f \in rd THEN rj[f] ELSE old_val[f]]

\* helper_csrxchg_with_lvz returning the merged value instead of the old one
helper_csrxchg_with_lvz_new(e, rj, rd, csr) ==
    IF ~check_csr_access_permission(e, csr, TRUE)
    THEN <<trigger_csr_vm_exit(e, csr, TRUE, rj), Val(0)>>
    ELSE LET r == helper_csrrd_with_lvz(e, csr)
         IN  IF r[1].exception_index # EXCP_NONE THEN r
             ELSE LET w == helper_csrwr_with_lvz(r[1], MaskMerge(r[2], rj, rd), csr)
                  IN  <<w[1], MaskMerge(r[2], rj, rd)>>

\* returns <<env, value>>
helper_csrxchg_with_lvz(e, rj, rd, csr) ==
    IF ~check_csr_access_permission(e, csr, TRUE)
    THEN <<trigger_csr_vm_exit(e, csr, TRUE, rj), Val(0)>>
    ELSE LET r == helper_csrrd_with_lvz(e, csr)
         IN  IF r[1].exception_index # EXCP_NONE THEN r
             ELSE LET w == helper_csrwr_with_lvz(r[1], MaskMerge(r[2], rj, rd), csr)
                  IN  <<w[1], r[2]>>

(***************************************************************************)
(* TLB instruction helpers (tlb_helper.c)                                  *)
(***************************************************************************)
get_current_guest_id(e) == IF is_guest_mode(e) THEN get_guest_id(e) ELSE 0

tlb_entry_matches_guest(e, tlb) ==
    IF ~has_lvz_capability(e) THEN TRUE
    ELSE tlb.tlb_misc.GID = get_current_guest_id(e)

\* get_effective_csr_asid/tlbehi/tlbelo0/tlbelo1/tlbidx
get_effective_csr(e, name) == IF is_guest_mode(e) THEN e.GCSR[name] ELSE e.CSR[name]

\* set_effective_csr_asid/tlbehi/tlbelo0/tlbelo1/tlbidx
set_effective_csr(e, name, value) ==
    IF is_guest_mode(e) THEN [e EXCEPT !.GCSR[name] = value]
    ELSE [e EXCEPT !.CSR[name] = value]

\* page size of entry index: only MTLB entries carry their own
tlb_ps_of(e, index) ==
    IF index >= LOONGARCH_STLB THEN e.tlb[index].tlb_misc.PS ELSE e.CSR.STLBPS.PS

\* vpn == (tlb_vppn >> compare_shift) with vpn = (vaddr & TARGET_VIRT_MASK) >> (ps + 1)
\* and compare_shift = ps + 1 - R_TLB_MISC_VPPN_SHIFT; a negative shift count is
\* undefined behaviour, its outcome is ub
vpn_matches(lo, tlb_vppn, ps, ub) ==
    IF ps + 1 < R_TLB_MISC_VPPN_SHIFT THEN ub
    ELSE lo \div Pow2(ps + 1) = tlb_vppn \div Pow2(ps + 1 - R_TLB_MISC_VPPN_SHIFT)

invalidate_tlb_entry(e, index) ==
    LET tlb == e.tlb[index]
        mmu_idx == cpu_mmu_index(e)
        tlb_ps == tlb_ps_of(e, index)
        pagesize == Pow2(tlb_ps)
        va == tlb.tlb_misc.VPPN * Pow2(R_TLB_MISC_VPPN_SHIFT)
        even == (va \div Pow2(tlb_ps + 1)) * Pow2(tlb_ps + 1)
        odd == Bit(va, tlb_ps) * pagesize
        e1 == IF tlb.tlb_entry0.V = 1
              THEN tlb_flush_range_by_mmuidx(e, even, pagesize, mmu_idx) ELSE e
    IN  IF tlb.tlb_entry1.V = 1
        THEN tlb_flush_range_by_mmuidx(e1, odd, pagesize, mmu_idx) ELSE e1

\* fill_tlb_entry storing TLBELO0 in both halves of the entry
fill_tlb_entry_lo0(e, index) ==
    LET refill == e.CSR.TLBRERA.ISTLBR = 1
        csr_ps == IF refill THEN e.CSR.TLBREHI.PS ELSE get_effective_csr(e, "TLBIDX").PS
        csr_vppn == IF refill THEN e.CSR.TLBREHI.VPPN
                    ELSE get_effective_csr(e, "TLBEHI").VPPN
        lo0 == IF refill THEN e.CSR.TLBRELO0 ELSE get_effective_csr(e, "TLBELO0")
        lo1 == IF refill THEN e.CSR.TLBRELO1 ELSE get_effective_csr(e, "TLBELO1")
        old == e.tlb[index].tlb_misc
        misc == [E |-> 1,
                 ASID |-> get_effective_csr(e, "ASID").ASID,
                 VPPN |-> csr_vppn,
                 PS |-> IF index >= LOONGARCH_STLB THEN csr_ps ELSE old.PS,
                 GID |-> IF has_lvz_capability(e) THEN get_current_guest_id(e)
                         ELSE old.GID]
    IN  [e EXCEPT !.tlb[index] =
                      [tlb_misc |-> misc, tlb_entry0 |-> lo0, tlb_entry1 |-> lo0]]

fill_tlb_entry(e, index) ==
    LET refill == e.CSR.TLBRERA.ISTLBR = 1
        csr_ps == IF refill THEN e.CSR.TLBREHI.PS ELSE get_effective_csr(e, "TLBIDX").PS
        csr_vppn == IF refill THEN e.CSR.TLBREHI.VPPN
                    ELSE get_effective_csr(e, "TLBEHI").VPPN
        lo0 == IF refill THEN e.CSR.TLBRELO0 ELSE get_effective_csr(e, "TLBELO0")
        lo1 == IF refill THEN e.CSR.TLBRELO1 ELSE get_effective_csr(e, "TLBELO1")
        old == e.tlb[index].tlb_misc
        misc == [E |-> 1,
                 ASID |-> get_effective_csr(e, "ASID").ASID,
                 VPPN |-> csr_vppn,
                 PS |-> IF index >= LOONGARCH_STLB THEN csr_ps ELSE old.PS,
                 GID |-> IF has_lvz_capability(e) THEN get_current_guest_id(e)
                         ELSE old.GID]
    IN  [e EXCEPT !.tlb[index] =
                      [tlb_misc |-> misc, tlb_entry0 |-> lo0, tlb_entry1 |-> lo1]]

\* val % (high - low + 1) + low for the random value val
get_random_tlb(val, low, high) == (val % (high - low + 1)) + low

\* the first element of the sequence order that satisfies Hit, as
\* <<found, index>>
FirstHit(order, Hit(_)) ==
    LET hits == {k \in 1 .. Len(order) : Hit(order[k])}
    IN  IF hits = {} THEN <<FALSE, 0 - 1>>
        ELSE <<TRUE, order[CHOOSE k \in hits : \A m \in hits : k <= m]>>

\* the entries a set-indexed search looks at, in the order it looks at them:
\* the ways of STLB set stlb_idx, then the MTLB
SearchOrder(stlb_idx) ==
    [i \in 1 .. STLB_WAYS |-> (i - 1) * STLB_SETS + stlb_idx]
    \o [i \in 1 .. LOONGARCH_MTLB |-> LOONGARCH_STLB + i - 1]

\* loongarch_tlb_search_guest without the test of the entry's GID
loongarch_tlb_search_guest_any_gid(e, vaddr, ub) ==
    LET current_gid == get_current_guest_id(e)
        csr_asid == get_effective_csr(e, "ASID").ASID
        stlb_ps == e.CSR.STLBPS.PS
        stlb_idx == (vaddr.lo \div Pow2(stlb_ps + 1)) % STLB_SETS
        Hit(i) == LET tlb == e.tlb[i]
                  IN  /\ tlb.tlb_misc.E = 1
                      /\ tlb.tlb_entry0.G = 1 \/ tlb.tlb_misc.ASID = csr_asid
                      /\ vpn_matches(vaddr.lo, tlb.tlb_misc.VPPN, tlb_ps_of(e, i), ub)
    IN  FirstHit(SearchOrder(stlb_idx), Hit)

loongarch_tlb_search_guest(e, vaddr, ub) ==
    LET current_gid == get_current_guest_id(e)
        csr_asid == get_effective_csr(e, "ASID").ASID
        stlb_ps == e.CSR.STLBPS.PS
        stlb_idx == (vaddr.lo \div Pow2(stlb_ps + 1)) % STLB_SETS
        Hit(i) == LET tlb == e.tlb[i]
                  IN  /\ tlb.tlb_misc.E = 1
                      /\ has_lvz_capability(e) => tlb.tlb_misc.GID = current_gid
                      /\ tlb.tlb_entry0.G = 1 \/ tlb.tlb_misc.ASID = csr_asid
                      /\ vpn_matches(vaddr.lo, tlb.tlb_misc.VPPN, tlb_ps_of(e, i), ub)
    IN  FirstHit(SearchOrder(stlb_idx), Hit)

helper_tlbsrch(e, ub) ==
    LET vppn == IF e.CSR.TLBRERA.ISTLBR = 1 THEN e.CSR.TLBREHI.VPPN
                ELSE get_effective_csr(e, "TLBEHI").VPPN
        search_ehi == Addr(0, vppn * Pow2(R_TLB_MISC_VPPN_SHIFT))
        r == loongarch_tlb_search_guest(e, search_ehi, ub)
        idx == get_effective_csr(e, "TLBIDX")
    IN  IF r[1]
        THEN set_effective_csr(e, "TLBIDX", [idx EXCEPT !.INDEX = r[2], !.NE = 0])
        ELSE set_effective_csr(e, "TLBIDX", [idx EXCEPT !.NE = 1])

\* an INDEX of LOONGARCH_TLB_MAX or more makes &env->tlb[index] point behind
\* the array
helper_tlbrd(e) ==
    LET idx == get_effective_csr(e, "TLBIDX")
        index == idx.INDEX
        tlb == IF index < LOONGARCH_TLB_MAX THEN e.tlb[index] ELSE e.beyond
        tlb_ps == IF index >= LOONGARCH_STLB THEN tlb.tlb_misc.PS ELSE e.CSR.STLBPS.PS
        asid == get_effective_csr(e, "ASID")
        invalid ==
            set_effective_csr(
              set_effective_csr(
                set_effective_csr(
                  set_effective_csr(
                    set_effective_csr(e, "TLBIDX", [idx EXCEPT !.NE = 1, !.PS = 0]),
                    "ASID", [asid EXCEPT !.ASID = 0]),
                  "TLBEHI", [VPPN |-> 0]),
                "TLBELO0", TlbLoZero),
              "TLBELO1", TlbLoZero)
        valid ==
            set_effective_csr(
              set_effective_csr(
                set_effective_csr(
                  set_effective_csr(e, "TLBIDX",
                                    [idx EXCEPT !.NE = 0, !.PS = tlb_ps % 64]),
                  "TLBEHI", [VPPN |-> tlb.tlb_misc.VPPN]),
                "TLBELO0", tlb.tlb_entry0),
              "TLBELO1", tlb.tlb_entry1)
    IN  IF ~tlb_entry_matches_guest(e, tlb) THEN invalid
        ELSE IF tlb.tlb_misc.E = 0 THEN invalid
        ELSE valid

\* only the call of invalidate_tlb_entry is guarded: with an INDEX of
\* LOONGARCH_TLB_MAX or more the stores go to the memory behind the array
helper_tlbwr(e) ==
    LET idx == get_effective_csr(e, "TLBIDX")
        index == idx.INDEX
        e1 == IF index < LOONGARCH_TLB_MAX THEN invalidate_tlb_entry(e, index) ELSE e
        \* env->tlb[index] of an index behind the array
        behind == [e1 EXCEPT !.tlb = (index :> e1.beyond) @@ @]
    IN  IF index < LOONGARCH_TLB_MAX
        THEN IF idx.NE = 1
             THEN [e1 EXCEPT !.tlb[index].tlb_misc.E = 0]
             ELSE fill_tlb_entry(e1, index)
        ELSE IF idx.NE = 1
        THEN [e1 EXCEPT !.beyond.tlb_misc.E = 0]
        ELSE [e1 EXCEPT !.beyond = fill_tlb_entry(behind, index).tlb[index]]

\* helper_tlbfill placing every entry in the MTLB
helper_tlbfill_mtlb(e, val) ==
    LET refill == e.CSR.TLBRERA.ISTLBR = 1
        vppn == IF refill THEN e.CSR.TLBREHI.VPPN
                ELSE get_effective_csr(e, "TLBEHI").VPPN
        pagesize == IF refill THEN e.CSR.TLBREHI.PS
                    ELSE get_effective_csr(e, "TLBIDX").PS
        stlb_ps == e.CSR.STLBPS.PS
        address == vppn * Pow2(R_TLB_MISC_VPPN_SHIFT)
        set == get_random_tlb(val, 0, STLB_WAYS - 1)
        stlb_idx == (address \div Pow2(stlb_ps + 1)) % STLB_SETS
        index == IF FALSE THEN set * STLB_SETS + stlb_idx
                 ELSE get_random_tlb(val, LOONGARCH_STLB, LOONGARCH_TLB_MAX - 1)
    IN  fill_tlb_entry(invalidate_tlb_entry(e, index), index)

\* val is the random value qemu_guest_getrandom_nofail delivers
helper_tlbfill(e, val) ==
    LET refill == e.CSR.TLBRERA.ISTLBR = 1
        vppn == IF refill THEN e.CSR.TLBREHI.VPPN
                ELSE get_effective_csr(e, "TLBEHI").VPPN
        pagesize == IF refill THEN e.CSR.TLBREHI.PS
                    ELSE get_effective_csr(e, "TLBIDX").PS
        stlb_ps == e.CSR.STLBPS.PS
        address == vppn * Pow2(R_TLB_MISC_VPPN_SHIFT)
        set == get_random_tlb(val, 0, STLB_WAYS - 1)
        stlb_idx == (address \div Pow2(stlb_ps + 1)) % STLB_SETS
        index == IF pagesize = stlb_ps THEN set * STLB_SETS + stlb_idx
                 ELSE get_random_tlb(val, LOONGARCH_STLB, LOONGARCH_TLB_MAX - 1)
    IN  fill_tlb_entry(invalidate_tlb_entry(e, index), index)

\* tlb->tlb_misc = FIELD_DP64(tlb->tlb_misc, TLB_MISC, E, 0) for the entries in S
ClearE(e, S) ==
    [e EXCEPT !.tlb = [i \in TLBIndexes |->
                         IF i \in S THEN [@[i] EXCEPT !.tlb_misc.E = 0] ELSE @[i]]]

\* the entries "one line per operation" addresses: STLB set index % 256, or the MTLB
TlbLine(index) ==
    IF index < LOONGARCH_STLB
    THEN {i * STLB_SETS + (index % STLB_SETS) : i \in 0 .. (STLB_WAYS - 1)}
    ELSE IF index < LOONGARCH_TLB_MAX
    THEN LOONGARCH_STLB .. (LOONGARCH_TLB_MAX - 1)
    ELSE {}

helper_tlbclr(e) ==
    LET csr_asid == get_effective_csr(e, "ASID").ASID
        index == get_effective_csr(e, "TLBIDX").INDEX
    IN  tlb_flush(ClearE(e, {i \in TlbLine(index) :
                               /\ tlb_entry_matches_guest(e, e.tlb[i])
                               /\ e.tlb[i].tlb_entry0.G = 0
                               /\ e.tlb[i].tlb_misc.ASID = csr_asid}))

helper_tlbflush(e) ==
    LET index == get_effective_csr(e, "TLBIDX").INDEX
    IN  tlb_flush(ClearE(e, {i \in TlbLine(index) :
                               tlb_entry_matches_guest(e, e.tlb[i])}))

\* helper_invtlb_all without the test of the entries' GID
helper_invtlb_all_every_gid(e) == tlb_flush(ClearE(e, TLBIndexes))

helper_invtlb_all(e) ==
    tlb_flush(ClearE(e, {i \in TLBIndexes : tlb_entry_matches_guest(e, e.tlb[i])}))

helper_invtlb_all_g(e, g) ==
    tlb_flush(ClearE(e, {i \in TLBIndexes :
                           /\ e.tlb[i].tlb_entry0.G = g
                           /\ tlb_entry_matches_guest(e, e.tlb[i])}))

helper_invtlb_all_asid(e, info) ==
    LET asid == info % Pow2(10)
    IN  tlb_flush(ClearE(e, {i \in TLBIndexes :
                               /\ e.tlb[i].tlb_entry0.G = 0
                               /\ e.tlb[i].tlb_misc.ASID = asid
                               /\ tlb_entry_matches_guest(e, e.tlb[i])}))

\* helper_invtlb_page_asid without the test of the G bit
helper_invtlb_page_asid_any(e, info, addr, ub) ==
    LET asid == info % Pow2(10)
    IN  tlb_flush(ClearE(e, {i \in TLBIndexes :
                               /\ tlb_entry_matches_guest(e, e.tlb[i])
                               /\ e.tlb[i].tlb_misc.ASID = asid
                               /\ vpn_matches(addr.lo, e.tlb[i].tlb_misc.VPPN,
                                              tlb_ps_of(e, i), ub)}))

helper_invtlb_page_asid(e, info, addr, ub) ==
    LET asid == info % Pow2(10)
    IN  tlb_flush(ClearE(e, {i \in TLBIndexes :
                               /\ tlb_entry_matches_guest(e, e.tlb[i])
                               /\ e.tlb[i].tlb_entry0.G = 0
                               /\ e.tlb[i].tlb_misc.ASID = asid
                               /\ vpn_matches(addr.lo, e.tlb[i].tlb_misc.VPPN,
                                              tlb_ps_of(e, i), ub)}))

helper_invtlb_page_asid_or_g(e, info, addr, ub) ==
    LET asid == info % Pow2(10)
    IN  tlb_flush(ClearE(e, {i \in TLBIndexes :
                               /\ tlb_entry_matches_guest(e, e.tlb[i])
                               /\ e.tlb[i].tlb_entry0.G = 1 \/ e.tlb[i].tlb_misc.ASID = asid
                               /\ vpn_matches(addr.lo, e.tlb[i].tlb_misc.VPPN,
                                              tlb_ps_of(e, i), ub)}))

(***************************************************************************)
(* Guest-only instructions (gcsr*, gtlb*, hvcl)                            *)
(***************************************************************************)
\* the guest-bank register of a CSR number, or "NULL"
get_guest_csr_ptr(e, csr) == IF csr \in DOMAIN e.GCSR THEN csr ELSE "NULL"

trigger_vm_exit(e, reason, info) ==
    do_raise_exception([e EXCEPT !.CSR.GSTAT.VM = 0,
                                 !.vm_exit_path = "trigger_vm_exit"],
                       EXCCODE_HVC)

\* returns <<env, value>>
helper_gcsrrd(e, csr) ==
    IF ~is_guest_mode(e) THEN <<do_raise_exception(e, EXCCODE_IPE), Val(0)>>
    ELSE IF get_guest_csr_ptr(e, csr) = "NULL"
    THEN <<trigger_vm_exit(e, VMEXIT_CSRR, csr), Val(0)>>
    ELSE IF csr = "ESTAT" /\ e.CSR.GCFG.SITP = 0
    THEN <<trigger_vm_exit(e, VMEXIT_CSRR, csr), Val(0)>>
    ELSE IF csr \in {"TCFG", "TVAL"} /\ e.CSR.GCFG.TITP = 0
    THEN <<trigger_vm_exit(e, VMEXIT_TIMER, csr), Val(0)>>
    ELSE <<e, e.GCSR[csr]>>

\* returns <<env, value>>
helper_gcsrwr(e, val, csr) ==
    IF ~is_guest_mode(e) THEN <<do_raise_exception(e, EXCCODE_IPE), Val(0)>>
    ELSE IF get_guest_csr_ptr(e, csr) = "NULL"
    THEN <<trigger_vm_exit(e, VMEXIT_CSRW, csr), Val(0)>>
    ELSE IF csr = "ESTAT" /\ e.CSR.GCFG.SITO = 0
    THEN <<trigger_vm_exit(e, VMEXIT_CSRW, csr), e.GCSR[csr]>>
    ELSE IF csr = "TCFG" /\ e.CSR.GCFG.TITO = 0
    THEN <<trigger_vm_exit(e, VMEXIT_TIMER, csr), e.GCSR[csr]>>
    ELSE IF csr = "TICLR"
    THEN <<trigger_vm_exit(e, VMEXIT_TIMER, csr), e.GCSR[csr]>>
    ELSE <<[e EXCEPT !.GCSR[csr] = val], e.GCSR[csr]>>

\* returns <<env, value>>
helper_gcsrxchg(e, rj, rd, csr) ==
    IF ~is_guest_mode(e) THEN <<do_raise_exception(e, EXCCODE_IPE), Val(0)>>
    ELSE IF get_guest_csr_ptr(e, csr) = "NULL"
    THEN <<trigger_vm_exit(e, VMEXIT_CSRX, csr), Val(0)>>
    ELSE IF csr = "ESTAT" /\ e.CSR.GCFG.SITO = 0
    THEN <<trigger_vm_exit(e, VMEXIT_CSRX, csr), e.GCSR[csr]>>
    ELSE IF csr = "TCFG" /\ e.CSR.GCFG.TITO = 0
    THEN <<trigger_vm_exit(e, VMEXIT_TIMER, csr), e.GCSR[csr]>>
    ELSE <<[e EXCEPT !.GCSR[csr] = MaskMerge(e.GCSR[csr], rj, rd)], e.GCSR[csr]>>

helper_gtlbclr(e) ==
    IF ~is_guest_mode(e) THEN do_raise_exception(e, EXCCODE_IPE)
    ELSE IF ~has_lvz_capability(e) THEN do_raise_exception(e, EXCCODE_IPE)
    ELSE trigger_vm_exit(e, VMEXIT_TLB, 0)

helper_gtlbflush(e) ==
    IF ~is_guest_mode(e) THEN do_raise_exception(e, EXCCODE_IPE)
    ELSE IF ~has_lvz_capability(e) THEN do_raise_exception(e, EXCCODE_IPE)
    ELSE trigger_vm_exit(e, VMEXIT_TLB, 1)

\* tlb_misc & (1ULL << 54): the lowest bit of the GID field
EntryHasGid(tlb) == tlb.tlb_misc.GID % 2 = 1

helper_gtlbsrch(e) ==
    IF ~is_guest_mode(e) THEN do_raise_exception(e, EXCCODE_IPE)
    ELSE IF ~has_lvz_capability(e) THEN do_raise_exception(e, EXCCODE_IPE)
    ELSE LET vppn == e.GCSR.TLBEHI.VPPN
             guest_asid == e.GCSR.ASID.ASID
             gid == get_guest_id(e)
             Hit(i) == /\ EntryHasGid(e.tlb[i])
                       /\ e.tlb[i].tlb_misc.GID = gid
                       /\ e.tlb[i].tlb_misc.VPPN = vppn
                       /\ e.tlb[i].tlb_misc.ASID = guest_asid
             r == FirstHit([i \in 1 .. LOONGARCH_TLB_MAX |-> i - 1], Hit)
         IN  IF r[1]
             THEN [e EXCEPT !.GCSR.TLBIDX.INDEX = r[2], !.GCSR.TLBIDX.NE = 0]
             ELSE [e EXCEPT !.GCSR.TLBIDX.NE = 1]

helper_gtlbrd(e) ==
    IF ~is_guest_mode(e) THEN do_raise_exception(e, EXCCODE_IPE)
    ELSE IF ~has_lvz_capability(e) THEN do_raise_exception(e, EXCCODE_IPE)
    ELSE LET index == e.GCSR.TLBIDX.INDEX
         IN  IF index >= LOONGARCH_TLB_MAX THEN e
             ELSE IF EntryHasGid(e.tlb[index])
                     /\ e.tlb[index].tlb_misc.GID = get_guest_id(e)
             THEN [e EXCEPT !.GCSR.TLBEHI = [VPPN |-> e.tlb[index].tlb_misc.VPPN],
                            !.GCSR.TLBELO0 = e.tlb[index].tlb_entry0,
                            !.GCSR.TLBELO1 = e.tlb[index].tlb_entry1,
                            !.GCSR.ASID = [ASID |-> e.tlb[index].tlb_misc.ASID,
                                           ASIDBITS |-> 0]]
             ELSE e

\* the entry gtlbwr and gtlbfill build from the guest bank
GuestTlbEntry(e) ==
    [tlb_misc |-> [E |-> 1, ASID |-> e.GCSR.ASID.ASID, VPPN |-> e.GCSR.TLBEHI.VPPN,
                   PS |-> e.GCSR.TLBIDX.PS, GID |-> get_guest_id(e)],
     tlb_entry0 |-> e.GCSR.TLBELO0,
     tlb_entry1 |-> e.GCSR.TLBELO1]

helper_gtlbwr(e) ==
    IF ~is_guest_mode(e) THEN do_raise_exception(e, EXCCODE_IPE)
    ELSE IF ~has_lvz_capability(e) THEN do_raise_exception(e, EXCCODE_IPE)
    ELSE LET index == e.GCSR.TLBIDX.INDEX
         IN  IF index >= LOONGARCH_TLB_MAX THEN e
             ELSE tlb_flush([e EXCEPT !.tlb[index] = GuestTlbEntry(e)])

\* val is the random value qemu_guest_getrandom_nofail delivers
helper_gtlbfill(e, val) ==
    IF ~is_guest_mode(e) THEN do_raise_exception(e, EXCCODE_IPE)
    ELSE IF ~has_lvz_capability(e) THEN do_raise_exception(e, EXCCODE_IPE)
    ELSE LET random_index == val % LOONGARCH_STLB
         IN  tlb_flush([e EXCEPT !.tlb[random_index] = GuestTlbEntry(e),
                                 !.GCSR.TLBIDX.INDEX = random_index])

\* helper_hvcl going on to the VM-exit when it is executed outside guest mode
helper_hvcl_unguarded(e, code) == trigger_vm_exit(e, VMEXIT_HYPERCALL, code)

helper_hvcl(e, code) ==
    IF ~is_guest_mode(e) THEN do_raise_exception(e, EXCCODE_INE)
    ELSE IF ~has_lvz_capability(e) THEN do_raise_exception(e, EXCCODE_INE)
    ELSE trigger_vm_exit(e, VMEXIT_HYPERCALL, code)

(***************************************************************************)
(* Address translation (cpu_helper.c, tlb_helper.c, second-level file)     *)
(*                                                                         *)
(* A translation result is [ret, physical, prot, index]: the TLBRET code   *)
(* (by name), the physical address, the page protection and the TLB entry  *)
(* the lookup selected (-1 when it selected none).                         *)
(***************************************************************************)
NoIndex == 0 - 1

Xlate(ret, physical, prot, index) ==
    [ret |-> ret, physical |-> physical, prot |-> prot, index |-> index]

loongarch_map_tlb_entry(e, address, access_type, index, mmu_idx, ub) ==
    LET tlb == e.tlb[index]
        plv == mmu_idx
        tlb_ps == tlb_ps_of(e, index)
        n == Bit(address.lo, tlb_ps)
        tlb_entry == IF n = 1 THEN tlb.tlb_entry1 ELSE tlb.tlb_entry0
        \* tlb_ppn & ~((1 << (tlb_ps - 12)) - 1); tlb_ps < 12 shifts by a negative
        \* count, which is undefined: the mask then keeps or drops the PPN
        tlb_ppn == IF tlb_ps < 12 THEN (IF ub THEN tlb_entry.PPN ELSE 0)
                   ELSE (tlb_entry.PPN \div Pow2(tlb_ps - 12)) * Pow2(tlb_ps - 12)
        prot == {"PAGE_READ"} \cup (IF tlb_entry.D = 1 THEN {"PAGE_WRITE"} ELSE {})
                              \cup (IF tlb_entry.NX = 0 THEN {"PAGE_EXEC"} ELSE {})
    IN  IF tlb_entry.V = 0 THEN Xlate("TLBRET_INVALID", AddrZero, {}, index)
        ELSE IF access_type = MMU_INST_FETCH /\ tlb_entry.NX = 1
        THEN Xlate("TLBRET_XI", AddrZero, {}, index)
        ELSE IF access_type = MMU_DATA_LOAD /\ tlb_entry.NR = 1
        THEN Xlate("TLBRET_RI", AddrZero, {}, index)
        ELSE IF \/ tlb_entry.RPLV = 0 /\ plv > tlb_entry.PLV
                \/ tlb_entry.RPLV = 1 /\ plv # tlb_entry.PLV
        THEN Xlate("TLBRET_PE", AddrZero, {}, index)
        ELSE IF access_type = MMU_DATA_STORE /\ tlb_entry.D = 0
        THEN Xlate("TLBRET_DIRTY", AddrZero, {}, index)
        ELSE Xlate("TLBRET_MATCH",
                   Addr(0, tlb_ppn * Pow2(12) + (address.lo % Pow2(tlb_ps))),
                   prot, index)

loongarch_tlb_search(e, vaddr, ub) ==
    LET csr_asid == e.CSR.ASID.ASID
        stlb_ps == e.CSR.STLBPS.PS
        stlb_idx == (vaddr.lo \div Pow2(stlb_ps + 1)) % STLB_SETS
        Hit(i) == LET tlb == e.tlb[i]
                  IN  /\ tlb.tlb_misc.E = 1
                      /\ tlb.tlb_entry0.G = 1 \/ tlb.tlb_misc.ASID = csr_asid
                      /\ vpn_matches(vaddr.lo, tlb.tlb_misc.VPPN, tlb_ps_of(e, i), ub)
    IN  FirstHit(SearchOrder(stlb_idx), Hit)

loongarch_map_address(e, address, access_type, mmu_idx, ub) ==
    LET r == loongarch_tlb_search(e, address, ub)
    IN  IF r[1]
        THEN loongarch_map_tlb_entry(e, address, access_type, r[2], mmu_idx, ub)
        ELSE Xlate("TLBRET_NOMATCH", AddrZero, {}, NoIndex)

\* va & TARGET_VIRT_MASK (the CPU is LA64)
dmw_va2pa(e, va, dmw) == Addr(0, va.lo)

\* get_physical_address accepting the lower canonical half alone
get_physical_address_low(e, address, access_type, mmu_idx, ub) ==
    LET user_mode == IF mmu_idx = MMU_USER_IDX THEN 1 ELSE 0
        kernel_mode == IF mmu_idx = MMU_KERNEL_IDX THEN 1 ELSE 0
        \* kernel_mode | (user_mode << R_CSR_DMW_PLV3_SHIFT)
        plv == kernel_mode + user_mode * 8
        base_v == address.hi \div Pow2(12)
        DmwHit(i) == LET dmw == e.CSR[<<"DMW0", "DMW1", "DMW2", "DMW3">>[i]]
                     IN  /\ \E b \in 0 .. 3 : Bit(plv, b) = 1 /\ Bit(dmw.PLV, b) = 1
                         /\ dmw.VSEG = base_v
        w == FirstHit(<<1, 2, 3, 4>>, DmwHit)
        all == {"PAGE_READ", "PAGE_WRITE", "PAGE_EXEC"}
    IN  IF e.CSR.CRMD.DA = 1 /\ e.CSR.CRMD.PG = 0
        THEN Xlate("TLBRET_MATCH", Addr(0, address.lo), all, NoIndex)
        ELSE IF w[1]
        THEN Xlate("TLBRET_MATCH",
                   dmw_va2pa(e, address, e.CSR[<<"DMW0", "DMW1", "DMW2", "DMW3">>[w[2]]]),
                   all, NoIndex)
        ELSE IF address.hi # 0
        THEN Xlate("TLBRET_BADADDR", AddrZero, {}, NoIndex)
        ELSE loongarch_map_address(e, address, access_type, mmu_idx, ub)

get_physical_address(e, address, access_type, mmu_idx, ub) ==
    LET user_mode == IF mmu_idx = MMU_USER_IDX THEN 1 ELSE 0
        kernel_mode == IF mmu_idx = MMU_KERNEL_IDX THEN 1 ELSE 0
        \* kernel_mode | (user_mode << R_CSR_DMW_PLV3_SHIFT)
        plv == kernel_mode + user_mode * 8
        base_v == address.hi \div Pow2(12)
        DmwHit(i) == LET dmw == e.CSR[<<"DMW0", "DMW1", "DMW2", "DMW3">>[i]]
                     IN  /\ \E b \in 0 .. 3 : Bit(plv, b) = 1 /\ Bit(dmw.PLV, b) = 1
                         /\ dmw.VSEG = base_v
        w == FirstHit(<<1, 2, 3, 4>>, DmwHit)
        all == {"PAGE_READ", "PAGE_WRITE", "PAGE_EXEC"}
    IN  IF e.CSR.CRMD.DA = 1 /\ e.CSR.CRMD.PG = 0
        THEN Xlate("TLBRET_MATCH", Addr(0, address.lo), all, NoIndex)
        ELSE IF w[1]
        THEN Xlate("TLBRET_MATCH",
                   dmw_va2pa(e, address, e.CSR[<<"DMW0", "DMW1", "DMW2", "DMW3">>[w[2]]]),
                   all, NoIndex)
        ELSE IF address.hi \notin {0, 65535}
        THEN Xlate("TLBRET_BADADDR", AddrZero, {}, NoIndex)
        ELSE loongarch_map_address(e, address, access_type, mmu_idx, ub)

\* returns <<found, hpa>>
loongarch_vmm_tlb_lookup(e, gpa) ==
    LET Hit(i) == /\ e.tlb[i].tlb_misc.GID = 0
                  /\ gpa.hi = 0
                  /\ gpa.lo \div Pow2(e.tlb[i].tlb_misc.PS) = e.tlb[i].tlb_misc.VPPN
        r == FirstHit([i \in 1 .. LOONGARCH_TLB_MAX |-> i - 1], Hit)
        tlb == e.tlb[r[2]]
        ps == tlb.tlb_misc.PS
        tlb_entry == IF Bit(gpa.lo, ps) = 1 THEN tlb.tlb_entry1 ELSE tlb.tlb_entry0
    IN  IF r[1] THEN <<TRUE, Addr(0, tlb_entry.PPN * Pow2(ps) + (gpa.lo % Pow2(ps)))>>
        ELSE <<FALSE, AddrZero>>

\* returns [env, ok, hpa, vm_exit_required]
loongarch_second_level_translate(e, gpa, access_type, mmu_idx) ==
    LET look == loongarch_vmm_tlb_lookup(e, gpa)
        exit_reason == VMEXIT_MMIO
    IN  IF ~is_second_level_translation_enabled(e)
        THEN [env |-> e, ok |-> TRUE, hpa |-> gpa, vm_exit_required |-> FALSE]
        ELSE IF look[1]
        THEN [env |-> e, ok |-> TRUE, hpa |-> look[2], vm_exit_required |-> FALSE]
        ELSE IF should_trigger_vm_exit(e, exit_reason)
        THEN [env |-> prepare_vm_exit_context(e, gpa, AddrZero, exit_reason, access_type),
              ok |-> FALSE, hpa |-> AddrZero, vm_exit_required |-> TRUE]
        ELSE [env |-> e, ok |-> TRUE, hpa |-> gpa, vm_exit_required |-> FALSE]

\* returns [env, ret, physical, prot, index]
guest_memory_translate(e, vaddr, access_type, mmu_idx, ub) ==
    LET access_flags == CASE access_type = MMU_DATA_LOAD -> ACCESS_TYPE_READ
                          [] access_type = MMU_DATA_STORE -> ACCESS_TYPE_WRITE
                          [] access_type = MMU_INST_FETCH -> ACCESS_TYPE_EXEC
                          [] OTHER -> 0
        Res(s1, e2, ret, hpa) == [env |-> e2, ret |-> ret, physical |-> hpa,
                                  prot |-> s1.prot, index |-> s1.index]
        \* s1: the first stage's result; t: the second stage's
        Stage2(s1, t) ==
            IF ~t.ok
            THEN IF t.vm_exit_required
                 THEN Res(s1, loongarch_trigger_vm_exit(t.env, t.env.vm_exit_ctx.exit_reason,
                                                        s1.physical, vaddr),
                          "TLBRET_NOMATCH", AddrZero)
                 ELSE Res(s1, t.env, "TLBRET_INVALID", AddrZero)
            ELSE Res(s1, t.env, "TLBRET_MATCH", t.hpa)
        Stage1(s1) ==
            IF s1.ret # "TLBRET_MATCH" THEN Res(s1, e, s1.ret, AddrZero)
            ELSE IF is_guest_mode(e) /\ has_lvz_capability(e)
            THEN Stage2(s1, loongarch_second_level_translate(e, s1.physical, access_flags,
                                                             mmu_idx))
            ELSE Res(s1, e, "TLBRET_MATCH", s1.physical)
    IN  Stage1(get_physical_address(e, vaddr, access_type, mmu_idx, ub))

\* raise_mmu_exception recording the address in TLBRBADV for every fault
raise_mmu_exception_badv(e, address, access_type, tlb_error) ==
    LET pi == CASE access_type = MMU_DATA_LOAD -> EXCCODE_PIL
                [] access_type = MMU_DATA_STORE -> EXCCODE_PIS
                [] access_type = MMU_INST_FETCH -> EXCCODE_PIF
                [] OTHER -> e.exception_index
        code == CASE tlb_error \in {"TLBRET_NOMATCH", "TLBRET_INVALID"} -> pi
                  [] tlb_error = "TLBRET_DIRTY" -> EXCCODE_PME
                  [] tlb_error = "TLBRET_XI" -> EXCCODE_PNX
                  [] tlb_error = "TLBRET_RI" -> EXCCODE_PNR
                  [] tlb_error = "TLBRET_PE" -> EXCCODE_PPI
                  [] OTHER -> IF access_type = MMU_INST_FETCH THEN EXCCODE_ADEF
                              ELSE EXCCODE_ADEM
        e1 == [e EXCEPT !.exception_index = code]
        vppn == address.lo \div Pow2(R_TLB_MISC_VPPN_SHIFT)
    IN  IF tlb_error = "TLBRET_NOMATCH"
        THEN [e1 EXCEPT !.CSR.TLBRERA.ISTLBR = 1,
                        !.CSR.TLBRBADV = address,
                        !.CSR.TLBREHI.VPPN = vppn]
        ELSE [e1 EXCEPT !.CSR.BADV = IF e.CSR.DBG.DST = 0 THEN address ELSE @,
                        !.CSR.TLBRBADV = address,
                        !.CSR.TLBEHI = [VPPN |-> vppn]]

raise_mmu_exception(e, address, access_type, tlb_error) ==
    LET pi == CASE access_type = MMU_DATA_LOAD -> EXCCODE_PIL
                [] access_type = MMU_DATA_STORE -> EXCCODE_PIS
                [] access_type = MMU_INST_FETCH -> EXCCODE_PIF
                [] OTHER -> e.exception_index
        code == CASE tlb_error \in {"TLBRET_NOMATCH", "TLBRET_INVALID"} -> pi
                  [] tlb_error = "TLBRET_DIRTY" -> EXCCODE_PME
                  [] tlb_error = "TLBRET_XI" -> EXCCODE_PNX
                  [] tlb_error = "TLBRET_RI" -> EXCCODE_PNR
                  [] tlb_error = "TLBRET_PE" -> EXCCODE_PPI
                  [] OTHER -> IF access_type = MMU_INST_FETCH THEN EXCCODE_ADEF
                              ELSE EXCCODE_ADEM
        e1 == [e EXCEPT !.exception_index = code]
        vppn == address.lo \div Pow2(R_TLB_MISC_VPPN_SHIFT)
    IN  IF tlb_error = "TLBRET_NOMATCH"
        THEN [e1 EXCEPT !.CSR.TLBRERA.ISTLBR = 1,
                        !.CSR.TLBRBADV = address,
                        !.CSR.TLBREHI.VPPN = vppn]
        ELSE [e1 EXCEPT !.CSR.BADV = IF e.CSR.DBG.DST = 0 THEN address ELSE @,
                        !.CSR.TLBEHI = [VPPN |-> vppn]]

\* address & TARGET_PAGE_MASK
PageOf(a) == Addr(a.hi, (a.lo \div Pow2(12)) * Pow2(12))

\* tlb_set_page: the mapping handed to the host-side translation cache
tlb_set_page(e, vaddr, paddr, prot, mmu_idx) ==
    [e EXCEPT !.set_page = @ \cup {[vaddr |-> vaddr, paddr |-> paddr, prot |-> prot,
                                     mmu_idx |-> mmu_idx]}]

\* returns <<env, filled>>
loongarch_cpu_tlb_fill(e, address, access_type, mmu_idx, probe, ub) ==
    LET Fill(r) ==
            IF r.ret = "TLBRET_MATCH"
            THEN <<tlb_set_page(e, PageOf(address), PageOf(r.physical), r.prot, mmu_idx),
                   TRUE>>
            ELSE IF probe THEN <<e, FALSE>>
            ELSE <<raise_mmu_exception(e, address, access_type, r.ret), FALSE>>
    IN  Fill(get_physical_address(e, address, access_type, mmu_idx, ub))

\* returns <<env, filled>>
loongarch_cpu_tlb_fill_guest(e, address, access_type, mmu_idx, probe, ub) ==
    LET two == is_guest_mode(e) /\ has_lvz_capability(e)
        \* e1: the CPU after the translation r
        Fill(e1, r) ==
            IF r.ret = "TLBRET_MATCH"
            THEN <<tlb_set_page(e1, PageOf(address), PageOf(r.physical), r.prot, mmu_idx),
                   TRUE>>
            ELSE IF probe THEN <<e1, FALSE>>
            ELSE <<raise_mmu_exception(e1, address, access_type, r.ret), FALSE>>
        Guest(g) == Fill(g.env, g)
    IN  IF two THEN Guest(guest_memory_translate(e, address, access_type, mmu_idx, ub))
        ELSE Fill(e, get_physical_address(e, address, access_type, mmu_idx, ub))

(***************************************************************************)
(* Migration (machine.c).  The stream is the record of the fields the      *)
(* descriptions list; a subsection that is not needed is not sent, and     *)
(* the destination keeps what its reset left in the fields it did not      *)
(* receive.  Every field is sent at the width the structure holds it in.   *)
(***************************************************************************)
\* subsection "cpu/lvz", sent when cpucfg[2].LVZ is set (lvz_needed)
vmstate_lvz(e) ==
    IF e.cpucfg2_LVZ
    THEN <<[CSR |-> [k \in {"GSTAT", "GCFG", "GTLBC", "TRGP"} |-> e.CSR[k]],
            GCSR |-> [k \in {"CRMD", "PRMD", "MISC", "ESTAT", "ERA", "BADV", "BADI",
                             "EENTRY", "TLBIDX", "TLBEHI", "TLBELO0", "TLBELO1",
                             "ASID", "PGDL", "PGDH", "PGD", "STLBPS", "CPUID",
                             "PRCFG1", "SAVE0", "TID", "TCFG", "TVAL", "CNTC",
                             "TICLR", "LLBCTL", "IMPCTL1", "TLBRENTRY", "TLBRBADV",
                             "TLBRERA", "TLBRSAVE", "TLBRELO0", "TLBRELO1",
                             "TLBREHI", "TLBRPRMD", "MERRCTL", "DMW0", "DMW1",
                             "DMW2", "DMW3", "DBG"} |-> e.GCSR[k]],
            lvz_enabled |-> e.lvz_enabled,
            vm_exit_ctx |-> [k \in {"fault_gpa", "fault_gva", "gid", "exit_reason",
                                    "access_type", "is_tlb_refill"}
                                 |-> e.vm_exit_ctx[k]]]>>
    ELSE <<>>

\* the stream of one CPU: the fields of "cpu", then the subsections "cpu/tlb"
\* (tlb_needed: under TCG always) and "cpu/lvz"
vmstate_loongarch_cpu(e) ==
    [pc |-> e.pc,
     CSR |-> [k \in {"CRMD", "PRMD", "MISC", "ESTAT", "ERA", "BADV", "BADI",
                     "EENTRY", "TLBIDX", "TLBEHI", "TLBELO0", "TLBELO1", "ASID",
                     "PGDL", "PGDH", "PGD", "STLBPS", "PRCFG1", "SAVE0", "TID",
                     "TCFG", "TVAL", "CNTC", "TICLR", "LLBCTL", "IMPCTL1",
                     "TLBRENTRY", "TLBRBADV", "TLBRERA", "TLBRSAVE", "TLBRELO0",
                     "TLBRELO1", "TLBREHI", "TLBRPRMD", "MERRCTL", "DMW0", "DMW1",
                     "DMW2", "DMW3", "DBG"} |-> e.CSR[k]],
     tlb |-> [i \in TLBIndexes |->
                 [tlb_misc |-> e.tlb[i].tlb_misc, tlb_entry0 |-> e.tlb[i].tlb_entry0,
                  tlb_entry1 |-> e.tlb[i].tlb_entry1]],
     lvz |-> vmstate_lvz(e)]

\* the destination CPU fresh after loading the stream s
vmstate_load_state(fresh, s) ==
    LET Lvz(e) ==
            IF s.lvz = <<>> THEN e
            ELSE [e EXCEPT !.CSR = Join(e.CSR, s.lvz[1].CSR),
                           !.GCSR = Join(e.GCSR, s.lvz[1].GCSR),
                           !.lvz_enabled = s.lvz[1].lvz_enabled,
                           !.vm_exit_ctx = s.lvz[1].vm_exit_ctx]
    IN  Lvz([fresh EXCEPT !.pc = s.pc, !.CSR = Join(fresh.CSR, s.CSR), !.tlb = s.tlb])

(***************************************************************************)
(* Inputs the helpers are run with                                         *)
(***************************************************************************)
\* a page pair of 16KiB pages (VPPN 4), its even page, its odd page, a
\* non-canonical address, an address in direct-map segment 9, and the page pair
\* (VPPN 12) the guests map
VA_EVEN == Addr(0, 32768)
VA_ODD == Addr(0, 49408)
VA_NONCANON == Addr(1, 32768)
VA_DMW == Addr(36864, 4096)
VA_GUEST == Addr(0, 98304)
\* the odd page of the VA_GUEST pair
VA_GUEST_IO == Addr(0, 114688)
\* the VA_EVEN page seen through the upper canonical half (bits 63:48 all 1)
VA_HIGH == Addr(65535, 32768)
AddrSample == {VA_EVEN, VA_ODD, VA_GUEST, VA_NONCANON, VA_DMW}
GPA_IO == Addr(0, 534773760)

LO_RW == TlbLo(1, 1, 0, 0, 32, 0, 0, 0)
\* LO_RW as a global page
LO_G == TlbLo(1, 1, 0, 1, 32, 0, 0, 0)
\* a page at GPA_IO
LO_IO == TlbLo(1, 1, 0, 0, 130560, 0, 0, 0)
LO_USER_RO_G == TlbLo(1, 0, 3, 1, 48, 1, 0, 0)
\* a clean, read-inhibited page only privilege level 3 may use (RPLV = 1)
LO_PLV3_ONLY == TlbLo(1, 0, 3, 1, 48, 0, 1, 1)
\* a page not valid
LO_INVALID == TlbLo(0, 1, 0, 0, 32, 0, 0, 0)

GCFG_NONE == LvzCsrZero.GCFG
GCFG_SOME == [TOEP |-> 1, TOE |-> 1, TIT |-> 0, TITO |-> 0, TITP |-> 1,
              SITO |-> 1, SITP |-> 0]
\* the trap bits GCFG_SOME leaves clear
GCFG_REST == [TOEP |-> 0, TOE |-> 0, TIT |-> 1, TITO |-> 1, TITP |-> 0,
              SITO |-> 0, SITP |-> 1]

ReasonSample == {VMEXIT_MMIO, VMEXIT_TLB, VMEXIT_HYPERCALL}
AccessSample == {MMU_DATA_LOAD, MMU_DATA_STORE, MMU_INST_FETCH}

\* the accesses a fill is run for: <<address, access_type, probe>>
FillSample ==
    {<<a, t, FALSE>> : a \in AddrSample, t \in AccessSample}
    \cup {<<VA_GUEST, MMU_DATA_LOAD, TRUE>>, <<VA_NONCANON, MMU_DATA_STORE, TRUE>>,
          <<VA_GUEST_IO, MMU_DATA_LOAD, FALSE>>}

\* the values a CSR is written with
CsrVals(csr) ==
    CASE csr = "CRMD" -> {[PLV |-> 0, IE |-> 1, DA |-> 0, PG |-> 1],
                          [PLV |-> 3, IE |-> 1, DA |-> 1, PG |-> 0]}
      [] csr = "TLBIDX" -> {[INDEX |-> 1, PS |-> 14, NE |-> 0],
                            [INDEX |-> LOONGARCH_STLB, PS |-> 12, NE |-> 0],
                            [INDEX |-> 3, PS |-> 14, NE |-> 1],
                            [INDEX |-> LOONGARCH_TLB_MAX, PS |-> 14, NE |-> 0]}
      [] csr = "TLBEHI" -> {[VPPN |-> 4]}
      [] csr = "TLBELO0" -> {LO_RW}
      [] csr = "TLBELO1" -> {LO_USER_RO_G}
      [] csr = "ASID" -> {[ASID |-> 5, ASIDBITS |-> 0]}
      [] csr = "ESTAT" -> {[IS |-> 3, ECODE |-> 0, ESUBCODE |-> 0]}
      [] csr = "TLBRERA" -> {[ISTLBR |-> 1, PC |-> [hi |-> 0, lo4 |-> 4096]]}
      [] csr = "STLBPS" -> {[PS |-> 12]}
      [] csr = "DMW0" -> {[PLV |-> 1, VSEG |-> 9]}
      [] csr = "ERA" -> {VA_ODD}
      [] OTHER -> {Val(1)}

CsrReadSample == {"CRMD", "ESTAT", "ERA", "TLBIDX", "TID", "TICLR", "CPUID", "PGD",
                  "TVAL", "TLBRERA", "DBG", "UNKNOWN"}
CsrWriteSample == {"CRMD", "ESTAT", "ERA", "TLBIDX", "TLBEHI", "TLBELO0", "TLBELO1",
                   "ASID", "STLBPS", "DMW0", "TID", "TCFG", "TVAL", "TICLR", "CPUID",
                   "TLBRERA", "SAVE0", "UNKNOWN"}
CsrXchgSample == {"CRMD", "ESTAT", "ASID", "TID", "TCFG", "TICLR", "TLBRERA", "UNKNOWN"}

\* the masks an exchange is run with: none of the fields, the first one, all
XchgMasks(val) ==
    {{}, DOMAIN val, {CHOOSE f \in DOMAIN val : TRUE}}

\* the outcomes of the undefined shifts a lookup over the TLB of e can meet
UbOutcomes(e) ==
    IF \E i \in TLBIndexes : e.tlb[i].tlb_misc.E = 1 /\ tlb_ps_of(e, i) < 12
    THEN BOOLEAN ELSE {FALSE}

\* the same for the page invalidations, which compare disabled entries too
UbOutcomesAll(e) ==
    IF \E i \in TLBIndexes : tlb_ps_of(e, i) < 12 THEN BOOLEAN ELSE {FALSE}

\* the random values the fills are run with
RandomSample == 0 .. (LOONGARCH_STLB - 1)

(***************************************************************************)
(* The states the CPU is booted into.  Each is built from the reset state  *)
(* by the helpers themselves; GCFG is programmed by the hypervisor's plain *)
(* CSR write.                                                              *)
(***************************************************************************)
Wr(e, csr, val) == helper_csrwr_with_lvz(e, val, csr)[1]
GWr(e, csr, val) == helper_gcsrwr(e, val, csr)[1]

\* paging on, and one mapping of the VA_EVEN page pair written with tlbwr
Paged(e) ==
    LET e1 == Wr(Wr(Wr(Wr(e, "TLBEHI", [VPPN |-> 4]), "TLBELO0", LO_RW),
                    "TLBELO1", LO_USER_RO_G),
                 "TLBIDX", [INDEX |-> 1, PS |-> 14, NE |-> 0])
    IN  Wr(helper_tlbwr(e1), "CRMD", [PLV |-> 0, IE |-> 1, DA |-> 0, PG |-> 1])

Hypervisor(gcfg) ==
    Paged([loongarch_init_second_level_translation(Reset(TRUE)) EXCEPT !.CSR.GCFG = gcfg])

\* guest gid entered; it has programmed its bank (a return to user mode at
\* VA_ODD among it; guest 1 runs with ASID 0, the others with ASID 5) and
\* written one TLB entry, for the VA_GUEST page pair
GuestRunning(e, gid) ==
    LET e0 == helper_vm_enter(helper_vm_context_switch(e, gid))
        e1 == GWr(GWr(GWr(e0, "PRMD", [PPLV |-> 3, PIE |-> 1]), "ERA", VA_ODD),
                  "ASID", [ASID |-> IF gid = 1 THEN 0 ELSE 5, ASIDBITS |-> 0])
        e2 == GWr(GWr(GWr(GWr(e1, "TLBEHI", [VPPN |-> 12]), "TLBELO0", LO_RW),
                      "TLBELO1", LO_IO),
                  "TLBIDX", [INDEX |-> IF gid = 1 THEN 3 ELSE LOONGARCH_STLB,
                             PS |-> 14, NE |-> 0])
    IN  helper_tlbwr(e2)

\* the host about to invalidate entry 3: TLBIDX.NE written as 1
Invalidating(e) == Wr(e, "TLBIDX", [INDEX |-> 3, PS |-> 14, NE |-> 1])

\* the host inside its TLB refill handler: TLBRERA.ISTLBR written as 1
Refilling(e) == Wr(e, "TLBRERA", [ISTLBR |-> 1, PC |-> [hi |-> 0, lo4 |-> 4096]])

\* the host after rewriting its mapping as a global one
PagedGlobal(e) == helper_tlbwr(Wr(e, "TLBELO0", LO_G))

\* the host after unmapping the even page of its mapping and restricting the
\* odd page to privilege level 3
PagedRestricted(e) ==
    helper_tlbwr(Wr(Wr(e, "TLBELO0", LO_INVALID), "TLBELO1", LO_PLV3_ONLY))

\* the second CPU of the machine after reset
SecondaryCpu == [Reset(FALSE) EXCEPT !.cpu_index = 1]

BootStates ==
    {Reset(FALSE), Reset(TRUE), Paged(Reset(FALSE)), PagedGlobal(Paged(Reset(FALSE)))}
    \cup {SecondaryCpu, PagedRestricted(Paged(Reset(FALSE)))}
    \cup {Invalidating(Paged(Reset(FALSE))), Refilling(Paged(Reset(FALSE)))}
    \cup {Hypervisor(g) : g \in {GCFG_NONE, GCFG_SOME}}
    \cup {GuestRunning(Hypervisor(g), 1) : g \in {GCFG_NONE, GCFG_SOME, GCFG_REST}}
    \cup {GuestRunning(helper_vm_exit_cpu(GuestRunning(Hypervisor(GCFG_SOME), 1),
                                          VMEXIT_TIMER), 2)}

\* what the CPU loop clears before the next helper runs
Begin(e) ==
    [e EXCEPT !.exception_index = EXCP_NONE, !.vm_exit_path = "none",
              !.flushes = {}, !.set_page = {},
              !.timer_stored = FALSE, !.irq_lowered = FALSE]

Init ==
    /\ env \in {Begin(b) : b \in BootStates}
    /\ last = [op |-> "reset", io |-> ("reset" :> [args |-> <<>>, ret |-> "void"]),
               pre |-> env]
    /\ steps = 0

\* helper op ran with args on the state env, produced e2 and returned ret; last.io
\* keeps the arguments and the result under the helper's name
Step(op, args, e2, ret) ==
    /\ env' = e2
    /\ last' = [op |-> op, io |-> (op :> [args |-> args, ret |-> ret]),
                pre |-> Begin(env)]
    /\ steps' = steps + 1

(***************************************************************************)
(* One action per helper: the helper runs to its end on the current state. *)
(***************************************************************************)
Run_helper_vm_exit_cpu ==
    /\ steps < MaxSteps
    /\ \E reason \in ReasonSample :
           Step("helper_vm_exit_cpu", <<reason>>,
                helper_vm_exit_cpu(Begin(env), reason), "void")

Run_helper_vm_exit_with_fault ==
    /\ steps < MaxSteps
    /\ \E reason \in {VMEXIT_MMIO, VMEXIT_TLB},
          access_type \in {ACCESS_TYPE_READ, ACCESS_TYPE_WRITE} :
           Step("helper_vm_exit_with_fault", <<reason, VA_EVEN, GPA_IO, access_type>>,
                helper_vm_exit_with_fault(Begin(env), reason, VA_EVEN, GPA_IO, access_type),
                "void")

Run_helper_vm_exit ==
    /\ steps < MaxSteps
    /\ \E reason \in ReasonSample :
           Step("helper_vm_exit", <<reason>>, helper_vm_exit(Begin(env), reason), "void")

Run_loongarch_trigger_vm_exit ==
    /\ steps < MaxSteps
    /\ \E reason \in {VMEXIT_MMIO, VMEXIT_TLB} :
           Step("loongarch_trigger_vm_exit", <<reason, GPA_IO, VA_EVEN>>,
                loongarch_trigger_vm_exit(Begin(env), reason, GPA_IO, VA_EVEN), "void")

Run_helper_vm_enter ==
    /\ steps < MaxSteps
    /\ Step("helper_vm_enter", <<>>, helper_vm_enter(Begin(env)), "void")

Run_helper_ertn ==
    /\ steps < MaxSteps
    /\ Step("helper_ertn", <<>>, helper_ertn(Begin(env)), "void")

Run_helper_idle ==
    /\ steps < MaxSteps
    /\ Step("helper_idle", <<>>, helper_idle(Begin(env)), "void")

Run_helper_guest_exception ==
    /\ steps < MaxSteps
    /\ Step("helper_guest_exception", <<EXCCODE_INE, VA_ODD>>,
            helper_guest_exception(Begin(env), EXCCODE_INE, VA_ODD), "void")

Run_helper_vm_context_switch ==
    /\ steps < MaxSteps
    /\ \E target_gid \in GIDs :
           Step("helper_vm_context_switch", <<target_gid>>,
                helper_vm_context_switch(Begin(env), target_gid), "void")

Run_helper_vm_interrupt ==
    /\ steps < MaxSteps
    /\ \E int_vec \in {2, 64} :
           Step("helper_vm_interrupt", <<int_vec>>,
                helper_vm_interrupt(Begin(env), int_vec), "void")

Run_helper_vm_idle ==
    /\ steps < MaxSteps
    /\ Step("helper_vm_idle", <<>>, helper_vm_idle(Begin(env)), "void")

Run_helper_rdtime_d ==
    /\ steps < MaxSteps
    /\ LET r == helper_rdtime_d(Begin(env))
       IN  Step("helper_rdtime_d", <<>>, r[1], r[2])

Run_helper_cpucfg_vm ==
    /\ steps < MaxSteps
    /\ \E rj \in {2, 16} :
           LET r == helper_cpucfg_vm(Begin(env), rj)
           IN  Step("helper_cpucfg_vm", <<rj>>, r[1], r[2])

Run_helper_vm_save_state ==
    /\ steps < MaxSteps
    /\ Step("helper_vm_save_state", <<>>, helper_vm_save_state(Begin(env)), "void")

Run_helper_vm_restore_state ==
    /\ steps < MaxSteps
    /\ Step("helper_vm_restore_state", <<>>, helper_vm_restore_state(Begin(env)), "void")

Run_loongarch_init_second_level_translation ==
    /\ steps < MaxSteps
    /\ Step("loongarch_init_second_level_translation", <<>>,
            loongarch_init_second_level_translation(Begin(env)), "void")

Run_enable_second_level_translation ==
    /\ steps < MaxSteps
    /\ Step("enable_second_level_translation", <<>>,
            enable_second_level_translation(Begin(env)), "void")

Run_disable_second_level_translation ==
    /\ steps < MaxSteps
    /\ Step("disable_second_level_translation", <<>>,
            disable_second_level_translation(Begin(env)), "void")

Run_helper_csrrd_with_lvz ==
    /\ steps < MaxSteps
    /\ \E csr \in CsrReadSample :
           LET r == helper_csrrd_with_lvz(Begin(env), csr)
           IN  Step("helper_csrrd_with_lvz", <<csr>>, r[1], r[2])

Run_helper_csrwr_with_lvz ==
    /\ steps < MaxSteps
    /\ \E csr \in CsrWriteSample :
           \E val \in CsrVals(csr) :
               LET r == helper_csrwr_with_lvz(Begin(env), val, csr)
               IN  Step("helper_csrwr_with_lvz", <<val, csr>>, r[1], r[2])

Run_helper_csrxchg_with_lvz ==
    /\ steps < MaxSteps
    /\ \E csr \in CsrXchgSample :
           \E rj \in CsrVals(csr) :
               \E rd \in XchgMasks(rj) :
                   LET r == helper_csrxchg_with_lvz(Begin(env), rj, rd, csr)
                   IN  Step("helper_csrxchg_with_lvz", <<rj, rd, csr>>, r[1], r[2])

Run_helper_gcsrrd ==
    /\ steps < MaxSteps
    /\ \E csr \in CsrReadSample :
           LET r == helper_gcsrrd(Begin(env), csr)
           IN  Step("helper_gcsrrd", <<csr>>, r[1], r[2])

Run_helper_gcsrwr ==
    /\ steps < MaxSteps
    /\ \E csr \in CsrWriteSample :
           \E val \in CsrVals(csr) :
               LET r == helper_gcsrwr(Begin(env), val, csr)
               IN  Step("helper_gcsrwr", <<val, csr>>, r[1], r[2])

Run_helper_gcsrxchg ==
    /\ steps < MaxSteps
    /\ \E csr \in CsrXchgSample :
           \E rj \in CsrVals(csr) :
               \E rd \in XchgMasks(rj) :
                   LET r == helper_gcsrxchg(Begin(env), rj, rd, csr)
                   IN  Step("helper_gcsrxchg", <<rj, rd, csr>>, r[1], r[2])

Run_helper_tlbsrch ==
    /\ steps < MaxSteps
    /\ \E ub \in UbOutcomes(env) :
           Step("helper_tlbsrch", <<ub>>, helper_tlbsrch(Begin(env), ub), "void")

Run_helper_tlbrd ==
    /\ steps < MaxSteps
    /\ Step("helper_tlbrd", <<>>, helper_tlbrd(Begin(env)), "void")

\* a store behind the array is undefined behaviour: it lands in the memory
\* that follows the array, or the build drops it
StoreOutcomes(e) ==
    IF get_effective_csr(e, "TLBIDX").INDEX < LOONGARCH_TLB_MAX THEN {TRUE} ELSE BOOLEAN

Run_helper_tlbwr ==
    /\ steps < MaxSteps
    /\ \E lands \in StoreOutcomes(env) :
           Step("helper_tlbwr", <<>>,
                IF lands THEN helper_tlbwr(Begin(env))
                ELSE [helper_tlbwr(Begin(env)) EXCEPT !.beyond = env.beyond], "void")

Run_helper_tlbfill ==
    /\ steps < MaxSteps
    /\ \E val \in 0 .. (STLB_WAYS - 1) :
           Step("helper_tlbfill", <<val>>, helper_tlbfill(Begin(env), val), "void")

Run_helper_tlbclr ==
    /\ steps < MaxSteps
    /\ Step("helper_tlbclr", <<>>, helper_tlbclr(Begin(env)), "void")

Run_helper_tlbflush ==
    /\ steps < MaxSteps
    /\ Step("helper_tlbflush", <<>>, helper_tlbflush(Begin(env)), "void")

Run_helper_invtlb_all ==
    /\ steps < MaxSteps
    /\ Step("helper_invtlb_all", <<>>, helper_invtlb_all(Begin(env)), "void")

Run_helper_invtlb_all_g ==
    /\ steps < MaxSteps
    /\ \E g \in {0, 1} :
           Step("helper_invtlb_all_g", <<g>>, helper_invtlb_all_g(Begin(env), g), "void")

Run_helper_invtlb_all_asid ==
    /\ steps < MaxSteps
    /\ \E info \in {0, 1} :
           Step("helper_invtlb_all_asid", <<info>>,
                helper_invtlb_all_asid(Begin(env), info), "void")

Run_helper_invtlb_page_asid ==
    /\ steps < MaxSteps
    /\ \E info \in {0, 1}, ub \in UbOutcomesAll(env) :
           Step("helper_invtlb_page_asid", <<info, VA_EVEN, ub>>,
                helper_invtlb_page_asid(Begin(env), info, VA_EVEN, ub), "void")

Run_helper_invtlb_page_asid_or_g ==
    /\ steps < MaxSteps
    /\ \E info \in {0, 1}, ub \in UbOutcomesAll(env) :
           Step("helper_invtlb_page_asid_or_g", <<info, VA_EVEN, ub>>,
                helper_invtlb_page_asid_or_g(Begin(env), info, VA_EVEN, ub), "void")

Run_helper_gtlbclr ==
    /\ steps < MaxSteps
    /\ Step("helper_gtlbclr", <<>>, helper_gtlbclr(Begin(env)), "void")

Run_helper_gtlbflush ==
    /\ steps < MaxSteps
    /\ Step("helper_gtlbflush", <<>>, helper_gtlbflush(Begin(env)), "void")

Run_helper_gtlbsrch ==
    /\ steps < MaxSteps
    /\ Step("helper_gtlbsrch", <<>>, helper_gtlbsrch(Begin(env)), "void")

Run_helper_gtlbrd ==
    /\ steps < MaxSteps
    /\ Step("helper_gtlbrd", <<>>, helper_gtlbrd(Begin(env)), "void")

Run_helper_gtlbwr ==
    /\ steps < MaxSteps
    /\ Step("helper_gtlbwr", <<>>, helper_gtlbwr(Begin(env)), "void")

Run_helper_gtlbfill ==
    /\ steps < MaxSteps
    /\ \E val \in RandomSample :
           Step("helper_gtlbfill", <<val>>, helper_gtlbfill(Begin(env), val), "void")

Run_helper_hvcl ==
    /\ steps < MaxSteps
    /\ \E code \in {66} :
           Step("helper_hvcl", <<code>>, helper_hvcl(Begin(env), code), "void")

\* get_physical_address recording the address of a failed translation in BADV
Run_get_physical_address_badv ==
    /\ steps < MaxSteps
    /\ \E address \in AddrSample, access_type \in AccessSample, ub \in UbOutcomes(env) :
           LET mmu_idx == cpu_mmu_index(env)
               r == get_physical_address(Begin(env), address, access_type, mmu_idx, ub)
           IN  Step("get_physical_address", <<address, access_type, mmu_idx, ub>>,
                    IF r.ret = "TLBRET_MATCH" THEN Begin(env)
                    ELSE [Begin(env) EXCEPT !.CSR.BADV = address],
                    r)

\* the translations run for an access at the current privilege level
Run_get_physical_address ==
    /\ steps < MaxSteps
    /\ \E address \in AddrSample \cup {VA_HIGH}, access_type \in AccessSample, ub \in UbOutcomes(env) :
           LET mmu_idx == cpu_mmu_index(env)
           IN  Step("get_physical_address", <<address, access_type, mmu_idx, ub>>,
                    Begin(env),
                    get_physical_address(Begin(env), address, access_type, mmu_idx, ub))

Run_loongarch_cpu_tlb_fill ==
    /\ steps < MaxSteps
    /\ \E f \in FillSample, ub \in UbOutcomes(env) :
           LET address == f[1]
               access_type == f[2]
               probe == f[3]
               mmu_idx == cpu_mmu_index(env)
               r == loongarch_cpu_tlb_fill(Begin(env), address, access_type, mmu_idx,
                                           probe, ub)
           IN  Step("loongarch_cpu_tlb_fill", <<address, access_type, mmu_idx, probe, ub>>,
                    r[1], r[2])

Run_loongarch_cpu_tlb_fill_guest ==
    /\ steps < MaxSteps
    /\ \E f \in FillSample, ub \in UbOutcomes(env) :
           LET address == f[1]
               access_type == f[2]
               probe == f[3]
               mmu_idx == cpu_mmu_index(env)
               r == loongarch_cpu_tlb_fill_guest(Begin(env), address, access_type, mmu_idx,
                                                 probe, ub)
           IN  Step("loongarch_cpu_tlb_fill_guest",
                    <<address, access_type, mmu_idx, probe, ub>>, r[1], r[2])

\* the CPU is saved and loaded into the same CPU of a machine just reset
Run_vmstate_loongarch_cpu ==
    /\ steps < MaxSteps
    /\ Step("vmstate_loongarch_cpu", <<>>,
            vmstate_load_state([Reset(env.cpucfg2_LVZ) EXCEPT !.cpu_index = env.cpu_index],
                               vmstate_loongarch_cpu(Begin(env))),
            "void")

Next ==
    \/ Run_helper_vm_exit_cpu
    \/ Run_helper_vm_exit_with_fault
    \/ Run_helper_vm_exit
    \/ Run_loongarch_trigger_vm_exit
    \/ Run_helper_vm_enter
    \/ Run_helper_ertn
    \/ Run_helper_idle
    \/ Run_helper_guest_exception
    \/ Run_helper_vm_context_switch
    \/ Run_helper_vm_interrupt
    \/ Run_helper_vm_idle
    \/ Run_helper_rdtime_d
    \/ Run_helper_cpucfg_vm
    \/ Run_helper_vm_save_state
    \/ Run_helper_vm_restore_state
    \/ Run_loongarch_init_second_level_translation
    \/ Run_enable_second_level_translation
    \/ Run_disable_second_level_translation
    \/ Run_helper_csrrd_with_lvz
    \/ Run_helper_csrwr_with_lvz
    \/ Run_helper_csrxchg_with_lvz
    \/ Run_helper_gcsrrd
    \/ Run_helper_gcsrwr
    \/ Run_helper_gcsrxchg
    \/ Run_helper_tlbsrch
    \/ Run_helper_tlbrd
    \/ Run_helper_tlbwr
    \/ Run_helper_tlbfill
    \/ Run_helper_tlbclr
    \/ Run_helper_tlbflush
    \/ Run_helper_invtlb_all
    \/ Run_helper_invtlb_all_g
    \/ Run_helper_invtlb_all_asid
    \/ Run_helper_invtlb_page_asid
    \/ Run_helper_invtlb_page_asid_or_g
    \/ Run_helper_gtlbclr
    \/ Run_helper_gtlbflush
    \/ Run_helper_gtlbsrch
    \/ Run_helper_gtlbrd
    \/ Run_helper_gtlbwr
    \/ Run_helper_gtlbfill
    \/ Run_helper_hvcl
    \/ Run_get_physical_address
    \/ Run_loongarch_cpu_tlb_fill
    \/ Run_loongarch_cpu_tlb_fill_guest
    \/ Run_vmstate_loongarch_cpu

Spec == Init /\ [][Next]_vars

(***************************************************************************)
(* Properties.  last.pre is the state the last helper started from, env    *)
(* the state it left.                                                      *)
(***************************************************************************)
\* the arguments and the result of the last helper
Args == last.io[last.op].args
Ret == last.io[last.op].ret

\* one of the VM-exit paths has run, started in guest mode
VmExitFromGuest == env.vm_exit_path # "none" /\ is_guest_mode(last.pre)

\* the TLB instruction helpers
TlbHelperOps ==
    {"helper_tlbsrch", "helper_tlbrd", "helper_tlbwr", "helper_tlbfill", "helper_tlbclr",
     "helper_tlbflush", "helper_invtlb_all", "helper_invtlb_all_g",
     "helper_invtlb_all_asid", "helper_invtlb_page_asid", "helper_invtlb_page_asid_or_g"}

\* C1: after a VM-exit from guest mode, by whichever path, GSTAT.VM is 0 and
\* GSTAT.PVM holds the value VM had immediately before the exit.
C1_VmExitSavesVmInPvm ==
    VmExitFromGuest =>
        /\ env.CSR.GSTAT.VM = 0
        /\ env.CSR.GSTAT.PVM = last.pre.CSR.GSTAT.VM

\* C2: when a VM-exit from guest mode is followed by the hypervisor's ertn, GSTAT.VM
\* after the ertn is the PVM held just before it: the guest is running again.
C2_ErtnAfterVmExitRestoresVm ==
    [][(VmExitFromGuest /\ last'.op = "helper_ertn")
          => env'.CSR.GSTAT.VM = env.CSR.GSTAT.PVM]_vars

\* C3: the TLB lookup of get_physical_address never selects an entry with GID # 0 in
\* host mode, nor an entry whose GID is neither 0 nor the current guest's in guest mode.
C3_LookupSelectsOwnGid ==
    (last.op = "get_physical_address" /\ Ret.index # NoIndex) =>
        LET gid == last.pre.tlb[Ret.index].tlb_misc.GID
        IN  IF is_guest_mode(last.pre)
            THEN gid \in {0, get_guest_id(last.pre)}
            ELSE gid = 0

\* C4: a TLB helper run in guest mode with guest id G leaves every entry whose GID is
\* not G as it was; stated here for the enabled entries alone, the ones that hold a
\* translation.
C4_TlbHelperKeepsForeignEntries ==
    (last.op \in TlbHelperOps /\ is_guest_mode(last.pre)) =>
        \A i \in TLBIndexes :
            (/\ last.pre.tlb[i].tlb_misc.E = 1
             /\ last.pre.tlb[i].tlb_misc.GID # get_guest_id(last.pre))
                => env.tlb[i] = last.pre.tlb[i]

\* C5: csrrd and csrwr run in guest mode, allowed or trapped, leave every register of
\* the host bank unchanged.
C5_GuestCsrAccessKeepsHostBank ==
    (/\ last.op \in {"helper_csrrd_with_lvz", "helper_csrwr_with_lvz"}
     /\ is_guest_mode(last.pre))
        => \A k \in DOMAIN CsrBankZero : env.CSR[k] = last.pre.CSR[k]

\* C6: while lvz_enabled is false every enabled TLB entry has GID 0.
C6_NoGidEntriesWhileLvzDisabled ==
    ~env.lvz_enabled =>
        \A i \in TLBIndexes : env.tlb[i].tlb_misc.E = 1 => env.tlb[i].tlb_misc.GID = 0

\* C7: after helper_vm_exit_with_fault(reason, gva, gpa, access_type) from guest mode
\* vm_exit_ctx is exactly {reason, gva, gpa, GSTAT.GID, access_type,
\* is_tlb_refill = (reason = TLB)}.
C7_VmExitContextIsTheFault ==
    (last.op = "helper_vm_exit_with_fault" /\ is_guest_execution_context(last.pre)) =>
        env.vm_exit_ctx =
            [fault_gpa |-> Args[3], fault_gva |-> Args[2],
             gid |-> get_guest_id(last.pre), exit_reason |-> Args[1],
             access_type |-> Args[4],
             is_tlb_refill |-> (Args[1] = VMEXIT_TLB)]

\* C8: after a VM-exit from guest mode the guest bank holds the interrupted context
\* (GCSR_PRMD.PPLV/PIE = the CRMD.PLV/IE before, GCSR_ERA = the pc,
\* GCSR_ESTAT.ECODE = HVC) and the host CRMD has PLV 0 and IE 0.
C8_VmExitSavesGuestContext ==
    VmExitFromGuest =>
        /\ env.GCSR.PRMD.PPLV = last.pre.CSR.CRMD.PLV
        /\ env.GCSR.PRMD.PIE = last.pre.CSR.CRMD.IE
        /\ env.GCSR.ERA = last.pre.pc
        /\ env.GCSR.ESTAT.ECODE = EXCCODE_HVC
        /\ env.CSR.CRMD.PLV = 0
        /\ env.CSR.CRMD.IE = 0

\* C9: GSTAT.VM changes only by a VM-exit (1 to 0), by ertn, or by vm_enter run in
\* hypervisor context (0 to 1); CSR accesses change it only by trapping, the TLB
\* helpers, the translations and save/restore never; vm_enter run in guest mode
\* changes nothing.
C9_VmChangesOnlyByExitErtnEnter ==
    LET vm0 == last.pre.CSR.GSTAT.VM
        vm1 == env.CSR.GSTAT.VM
    IN  /\ vm0 # vm1 =>
              \/ vm0 = 1 /\ vm1 = 0 /\ env.vm_exit_path # "none"
              \/ last.op = "helper_ertn"
              \/ /\ last.op = "helper_vm_enter"
                 /\ is_hypervisor_execution_context(last.pre)
                 /\ vm0 = 0 /\ vm1 = 1
        /\ last.op \in TlbHelperOps
                       \cup {"get_physical_address", "loongarch_cpu_tlb_fill",
                             "helper_vm_save_state", "helper_vm_restore_state"}
              => vm1 = vm0
        /\ (last.op = "helper_vm_enter" /\ is_guest_mode(last.pre)) => env = last.pre

\* vm_enter has run in hypervisor context and the CPU is in guest mode
C9_Witness ==
    /\ last.op = "helper_vm_enter"
    /\ is_hypervisor_execution_context(last.pre)
    /\ last.pre.CSR.GSTAT.VM = 0
    /\ env.CSR.GSTAT.VM = 1

\* C10: the CPU is in the GUEST state (GSTAT.VM = 1) only with lvz_enabled and
\* cpucfg2.LVZ; the guest-mode predicate of the TLB and CSR helpers never holds while
\* lvz_enabled is false.
C10_GuestOnlyWhileLvzEnabled ==
    /\ env.CSR.GSTAT.VM = 1 => (env.lvz_enabled /\ env.cpucfg2_LVZ)
    /\ is_guest_mode(env) => env.lvz_enabled

CsrReadOps == {"helper_csrrd_with_lvz", "helper_gcsrrd"}
CsrWriteOps == {"helper_csrwr_with_lvz", "helper_gcsrwr"}
CsrXchgOps == {"helper_csrxchg_with_lvz", "helper_gcsrxchg"}

\* the last helper was a CSR access made in guest mode that ended in a VM-exit
CsrAccessTrapped ==
    /\ last.op \in CsrReadOps \cup CsrWriteOps \cup CsrXchgOps
    /\ VmExitFromGuest

\* C12: a trapped guest-mode CSR read, write or exchange records exit reason CSRR,
\* CSRW or CSRX, and changes no CSR of either bank and no timer or interrupt state
\* other than what a VM-exit updates (GSTAT, host CRMD, guest PRMD, ERA and ESTAT).
C12_TrappedCsrAccessRecordsReason ==
    CsrAccessTrapped =>
        /\ env.vm_exit_ctx.exit_reason =
               (IF last.op \in CsrReadOps THEN VMEXIT_CSRR
                ELSE IF last.op \in CsrWriteOps THEN VMEXIT_CSRW
                ELSE VMEXIT_CSRX)
        /\ \A k \in (DOMAIN env.CSR) \ {"GSTAT", "CRMD"} : env.CSR[k] = last.pre.CSR[k]
        /\ \A k \in (DOMAIN env.GCSR) \ {"PRMD", "ERA", "ESTAT"} :
               env.GCSR[k] = last.pre.GCSR[k]
        /\ ~env.timer_stored
        /\ ~env.irq_lowered

\* the CSR number the last CSR access helper was given
CsrArg == Args[Len(Args)]

\* C13: in host mode (GSTAT.VM = 0) a csrrd, csrwr or csrxchg of a register of the
\* host bank, the TLB-refill, machine-error and debug blocks, CPUID and TVAL among
\* them, acts on the host bank and raises neither a VM-exit nor the hypervisor-call
\* exception.
C13_HostCsrAccessIsDirect ==
    (/\ last.op \in {"helper_csrrd_with_lvz", "helper_csrwr_with_lvz",
                     "helper_csrxchg_with_lvz"}
     /\ last.pre.CSR.GSTAT.VM = 0
     /\ CsrArg \in DOMAIN CsrBankZero)
        => /\ env.exception_index = EXCP_NONE
           /\ env.vm_exit_path = "none"
           /\ env.GCSR = last.pre.GCSR

\* the access-policy table for guest mode: the registers it lists, and whether it
\* allows the access under the trap bits gcfg
PolicyTableCsrs ==
    {"CRMD", "PRMD", "MISC", "ERA", "BADV", "BADI", "EENTRY",
     "TLBIDX", "TLBEHI", "TLBELO0", "TLBELO1", "ASID", "PGDL", "PGDH", "PGD", "STLBPS",
     "ESTAT", "TID", "TCFG", "TVAL", "CNTC", "TICLR", "CPUID", "PRCFG1",
     "SAVE0", "LLBCTL", "DMW0", "DMW1", "DMW2", "DMW3",
     "TLBRENTRY", "TLBRBADV", "TLBRERA", "TLBRSAVE", "TLBRELO0", "TLBRELO1", "TLBREHI",
     "TLBRPRMD", "MERRCTL", "IMPCTL1", "DBG"}

PolicyTableAllows(csr, is_write, gcfg) ==
    CASE csr \in {"TID", "TCFG", "TVAL", "CNTC"} ->
             IF is_write THEN gcfg.TITO = 1 ELSE gcfg.TITP = 1
      [] csr = "ESTAT" -> IF is_write THEN gcfg.SITO = 1 ELSE gcfg.SITP = 1
      [] csr \in {"CPUID", "PRCFG1"} -> ~is_write
      [] csr \in {"TICLR", "TLBRENTRY", "TLBRBADV", "TLBRERA", "TLBRSAVE", "TLBRELO0",
                  "TLBRELO1", "TLBREHI", "TLBRPRMD", "MERRCTL", "IMPCTL1", "DBG"} -> FALSE
      [] OTHER -> TRUE

\* C14: in guest mode a csrrd or csrwr of a register of the access-policy table
\* completes without a VM-exit exactly when the table allows it under the current
\* GCFG, and causes a VM-exit otherwise.
C14_GuestCsrAccessFollowsTable ==
    (/\ last.op \in {"helper_csrrd_with_lvz", "helper_csrwr_with_lvz"}
     /\ is_guest_mode(last.pre)
     /\ CsrArg \in PolicyTableCsrs)
        => (env.vm_exit_path = "none"
              <=> PolicyTableAllows(CsrArg, last.op = "helper_csrwr_with_lvz",
                                    last.pre.CSR.GCFG))

\* the last helper ran to its end: no exception and no VM-exit
Completed == env.exception_index = EXCP_NONE /\ env.vm_exit_path = "none"

\* the register CsrArg of the bank the last CSR access helper addresses, in state e
CsrOf(e) ==
    IF last.op \in {"helper_gcsrrd", "helper_gcsrwr", "helper_gcsrxchg"}
    THEN e.GCSR[CsrArg] ELSE e.CSR[CsrArg]

WritableMerge(csr, old, v) ==
    CASE csr = "ASID" -> [old EXCEPT !.ASID = v.ASID % Pow2(10)]
      [] csr = "ESTAT" -> [old EXCEPT !.IS = (old.IS \div 4) * 4 + (v.IS % 4)]
      [] csr = "TICLR" -> old
      [] OTHER -> v

C16_ExchangeWithZeroMaskIsRead ==
    (last.op = "helper_csrxchg_with_lvz" /\ Args[2] = {}) =>
        /\ Ret = helper_csrrd_with_lvz(last.pre, CsrArg)[2]
        /\ env = last.pre

\* the registers a tlbwr stores and a tlbrd loads, in the effective bank
TlbWindow(e) ==
    [TLBEHI |-> get_effective_csr(e, "TLBEHI").VPPN,
     TLBELO0 |-> get_effective_csr(e, "TLBELO0"),
     TLBELO1 |-> get_effective_csr(e, "TLBELO1"),
     ASID |-> get_effective_csr(e, "ASID")]

\* a tlbrd step taken right after a tlbwr step at an index below TLB_MAX
TlbwrThenTlbrd ==
    /\ last.op = "helper_tlbwr"
    /\ last'.op = "helper_tlbrd"
    /\ get_effective_csr(last.pre, "TLBIDX").INDEX < LOONGARCH_TLB_MAX

\* C17: tlbwr followed by tlbrd at the same effective TLBIDX.INDEX, in the same
\* mode, leaves the effective TLBEHI (VPPN), TLBELO0, TLBELO1 and ASID equal to
\* the values they had before the tlbwr.
C17_TlbwrTlbrdRoundTrip ==
    [][TlbwrThenTlbrd => TlbWindow(env') = TlbWindow(last.pre)]_vars

\* C17 (amended): when the tlbwr runs with TLBIDX.NE = 0 and outside the TLB
\* refill handler (TLBRERA.ISTLBR = 0), tlbwr followed by tlbrd at the same
\* effective TLBIDX.INDEX, in the same mode, leaves the effective TLBEHI (VPPN),
\* TLBELO0, TLBELO1 and ASID equal to the values they had before the tlbwr.
C17_RoundTripOfValidWrite ==
    [][(/\ TlbwrThenTlbrd
        /\ get_effective_csr(last.pre, "TLBIDX").NE = 0
        /\ last.pre.CSR.TLBRERA.ISTLBR = 0)
       => TlbWindow(env') = TlbWindow(last.pre)]_vars

\* a tlbrd has read back a valid entry that the tlbwr before it wrote from a
\* non-zero register window
C17_Witness ==
    /\ last.op = "helper_tlbrd"
    /\ steps = 2
    /\ get_effective_csr(last.pre, "TLBIDX").INDEX < LOONGARCH_TLB_MAX
    /\ get_effective_csr(env, "TLBIDX").NE = 0
    /\ last.pre.tlb[get_effective_csr(env, "TLBIDX").INDEX].tlb_misc.E = 1
    /\ last.pre.CSR.TLBRERA.ISTLBR = 0
    /\ TlbWindow(env).TLBEHI # 0
    /\ TlbWindow(env).TLBELO0.V = 1
    /\ TlbWindow(env) = TlbWindow(last.pre)

FirstStageHitEnabled ==
    /\ (last.op = "get_physical_address" /\ Ret.index # NoIndex) =>
           last.pre.tlb[Ret.index].tlb_misc.E = 1
    /\ (last.op = "helper_tlbsrch" /\ get_effective_csr(env, "TLBIDX").NE = 0) =>
           last.pre.tlb[get_effective_csr(env, "TLBIDX").INDEX].tlb_misc.E = 1

\* gtlbsrch reported only an enabled entry
GtlbsrchHitEnabled ==
    (last.op = "helper_gtlbsrch" /\ Completed /\ env.GCSR.TLBIDX.NE = 0) =>
        last.pre.tlb[env.GCSR.TLBIDX.INDEX].tlb_misc.E = 1

\* the second-stage lookup hits only when an enabled entry maps the address
VmmHitEnabled ==
    \A gpa \in {AddrZero, GPA_IO} :
        loongarch_vmm_tlb_lookup(env, gpa)[1] =>
            \E i \in TLBIndexes : /\ env.tlb[i].tlb_misc.E = 1
                                  /\ env.tlb[i].tlb_misc.GID = 0
                                  /\ gpa.lo \div Pow2(env.tlb[i].tlb_misc.PS)
                                         = env.tlb[i].tlb_misc.VPPN

\* C19: a TLB entry with E = 0 is never reported as a hit, by the first-stage
\* searches, by the second-stage VMM lookup or by gtlbsrch.
C19_DisabledEntryNeverHits ==
    /\ FirstStageHitEnabled
    /\ GtlbsrchHitEnabled
    /\ VmmHitEnabled

\* a memory access made in guest mode, not a probe, whose first-stage TLB lookup
\* found no entry
GuestFirstStageMiss ==
    /\ last.op \in {"loongarch_cpu_tlb_fill", "loongarch_cpu_tlb_fill_guest"}
    /\ is_guest_mode(last.pre)
    /\ ~Args[4]
    /\ get_physical_address(last.pre, Args[1], Args[2], Args[3], Args[5]).ret
           = "TLBRET_NOMATCH"

\* C20: in guest mode with guest id G, a memory access whose first-stage TLB
\* lookup misses causes a VM-exit: afterwards vm_exit_ctx.exit_reason is TLB,
\* vm_exit_ctx.fault_gva is the accessed va, vm_exit_ctx.gid is G and GSTAT.VM
\* is 0.
C20_GuestTlbMissExits ==
    GuestFirstStageMiss =>
        /\ env.vm_exit_ctx.exit_reason = VMEXIT_TLB
        /\ env.vm_exit_ctx.fault_gva = Args[1]
        /\ env.vm_exit_ctx.gid = get_guest_id(last.pre)
        /\ env.CSR.GSTAT.VM = 0

\* a guest access, not a probe, whose first stage hit and gave the GPA of the
\* IOCSR/MMIO window, which no GID = 0 TLB entry covers
GuestIoAccess ==
    /\ last.op = "loongarch_cpu_tlb_fill_guest"
    /\ is_guest_mode(last.pre)
    /\ has_lvz_capability(last.pre)
    /\ ~Args[4]
    /\ LET s1 == get_physical_address(last.pre, Args[1], Args[2], Args[3], Args[5])
       IN  s1.ret = "TLBRET_MATCH" /\ s1.physical = GPA_IO
    /\ \A i \in TLBIndexes :
           last.pre.tlb[i].tlb_misc.GID = 0 =>
               GPA_IO.lo \div Pow2(last.pre.tlb[i].tlb_misc.PS)
                   # last.pre.tlb[i].tlb_misc.VPPN

\* C21: a guest access whose first stage yields a GPA inside the IOCSR/MMIO
\* window that no GID = 0 entry covers is trapped, never identity-mapped: a
\* VM-exit occurs with exit_reason MMIO, fault_gpa = GPA, fault_gva = va and
\* CSR_TRGP = GPA.
C21_GuestIoAccessIsTrapped ==
    GuestIoAccess =>
        /\ ~Ret
        /\ env.set_page = {}
        /\ env.CSR.GSTAT.VM = 0
        /\ env.vm_exit_ctx.exit_reason = VMEXIT_MMIO
        /\ env.vm_exit_ctx.fault_gpa = GPA_IO
        /\ env.vm_exit_ctx.fault_gva = Args[1]
        /\ env.CSR.TRGP = GPA_IO

\* the fault codes of the first stage
FirstStageFaults ==
    {"TLBRET_NOMATCH", "TLBRET_INVALID", "TLBRET_DIRTY", "TLBRET_RI", "TLBRET_XI",
     "TLBRET_PE", "TLBRET_BADADDR"}

\* a guest access, not a probe, that made a VM-exit from the second-level
\* translation
SecondLevelExit ==
    /\ last.op = "loongarch_cpu_tlb_fill_guest"
    /\ ~Args[4]
    /\ VmExitFromGuest
    /\ get_physical_address(last.pre, Args[1], Args[2], Args[3], Args[5]).ret
           = "TLBRET_MATCH"

\* C22: when a guest access needs a VM-exit because second-level translation
\* missed, the translation reports a result distinct from every first-stage
\* fault code, and the access modifies no TLB-refill state (TLBRERA.ISTLBR,
\* TLBRBADV, TLBREHI) and raises no first-stage exception.
C22_SecondLevelFaultIsDistinct ==
    SecondLevelExit =>
        /\ guest_memory_translate(last.pre, Args[1], Args[2], Args[3], Args[5]).ret
               \notin FirstStageFaults
        /\ env.CSR.TLBRERA = last.pre.CSR.TLBRERA
        /\ env.CSR.TLBRBADV = last.pre.CSR.TLBRBADV
        /\ env.CSR.TLBREHI = last.pre.CSR.TLBREHI
        /\ env.exception_index = EXCP_NONE

\* C23: hvcl code executed in guest mode causes a VM-exit after which
\* vm_exit_ctx.exit_reason is HYPERCALL, the hypercall code is available to the
\* hypervisor (in vm_exit_ctx or CSR_TRGP), GCSR_ERA is the PC of the hvcl
\* instruction and GSTAT.VM is 0.
C23_HvclExitsWithHypercall ==
    (last.op = "helper_hvcl" /\ is_guest_mode(last.pre)) =>
        /\ env.CSR.GSTAT.VM = 0
        /\ env.vm_exit_ctx.exit_reason = VMEXIT_HYPERCALL
        /\ \/ env.vm_exit_ctx.fault_gpa = Addr(0, Args[1])
           \/ env.vm_exit_ctx.fault_gva = Addr(0, Args[1])
           \/ env.CSR.TRGP = Addr(0, Args[1])
        /\ env.GCSR.ERA = last.pre.pc

\* the instructions that are legal only in guest mode, hvcl apart
GuestOnlyOps ==
    {"helper_gcsrrd", "helper_gcsrwr", "helper_gcsrxchg", "helper_gtlbclr",
     "helper_gtlbflush", "helper_gtlbsrch", "helper_gtlbrd", "helper_gtlbwr",
     "helper_gtlbfill"}

\* C24: a guest-only instruction executed while the vCPU is not in guest mode
\* raises IPE (INE for hvcl) and changes no CSR of either bank, no TLB entry, no
\* GSTAT bit and no vm_exit_ctx field.
C24_GuestOnlyOutsideGuestRaises ==
    (last.op \in GuestOnlyOps \cup {"helper_hvcl"} /\ ~is_guest_mode(last.pre)) =>
        /\ env.exception_index =
               IF last.op = "helper_hvcl" THEN EXCCODE_INE ELSE EXCCODE_IPE
        /\ env.CSR = last.pre.CSR
        /\ env.GCSR = last.pre.GCSR
        /\ env.tlb = last.pre.tlb
        /\ env.vm_exit_ctx = last.pre.vm_exit_ctx

\* each of the guest-only instructions has been refused in host mode
C24_Witness ==
    /\ last.op \in {"helper_gcsrwr", "helper_gtlbwr", "helper_hvcl"}
    /\ ~is_guest_mode(last.pre)
    /\ has_lvz_capability(last.pre)
    /\ last.pre.lvz_enabled
    /\ \E i \in TLBIndexes : last.pre.tlb[i].tlb_misc.E = 1
    /\ env.exception_index \in {EXCCODE_IPE, EXCCODE_INE}

\* the bank ertn is to consult: the guest bank in guest mode, the host bank
\* otherwise
ErtnBank == IF is_guest_mode(last.pre) THEN last.pre.GCSR ELSE last.pre.CSR

\* C25: after ertn, CRMD.PLV and CRMD.IE equal the PPLV and PIE fields of
\* TLBRPRMD (refill return) or PRMD (normal return) and PC equals the matching
\* return address, every register consulted, the ISTLBR flag included, coming
\* from the guest bank when ertn runs in guest mode and from the host bank
\* otherwise.
C25_ErtnRestoresFromOwnBank ==
    last.op = "helper_ertn" =>
        IF ErtnBank.TLBRERA.ISTLBR = 1
        THEN /\ env.CSR.CRMD.PLV = ErtnBank.TLBRPRMD.PPLV
             /\ env.CSR.CRMD.IE = ErtnBank.TLBRPRMD.PIE
             /\ env.pc = TLBRERA_PC_shl2(ErtnBank.TLBRERA.PC)
        ELSE /\ env.CSR.CRMD.PLV = ErtnBank.PRMD.PPLV
             /\ env.CSR.CRMD.IE = ErtnBank.PRMD.PIE
             /\ env.pc = ErtnBank.ERA

\* no direct-mapped window of e matches address at privilege class mmu_idx
NoDmwMatch(e, address, mmu_idx) ==
    LET plv == (IF mmu_idx = MMU_KERNEL_IDX THEN 1 ELSE 0)
               + (IF mmu_idx = MMU_USER_IDX THEN 8 ELSE 0)
    IN  \A w \in {"DMW0", "DMW1", "DMW2", "DMW3"} :
            \/ e.CSR[w].VSEG # address.hi \div Pow2(12)
            \/ \A b \in 0 .. 3 : Bit(plv, b) = 0 \/ Bit(e.CSR[w].PLV, b) = 0

\* a translation made in paged mode for an address no window maps
PagedTranslation ==
    /\ last.op = "get_physical_address"
    /\ ~(last.pre.CSR.CRMD.DA = 1 /\ last.pre.CSR.CRMD.PG = 0)
    /\ NoDmwMatch(last.pre, Args[1], Args[3])

\* C26: in paged mode and with no matching direct-mapped window,
\* get_physical_address returns BADADDR exactly for the addresses whose bits
\* [63:48] are neither all 0 nor all 1, and then selects no TLB entry.
C26_BadAddrIffNonCanonical ==
    PagedTranslation =>
        /\ Ret.ret = "TLBRET_BADADDR" <=> Args[1].hi \notin {0, 65535}
        /\ Ret.ret = "TLBRET_BADADDR" => Ret.index = NoIndex

\* an address of the upper canonical half has been translated through the TLB
C26_Witness ==
    /\ PagedTranslation
    /\ Args[1].hi = 65535
    /\ Ret.ret = "TLBRET_MATCH"
    /\ Ret.index # NoIndex

\* the page size and the entry-high VPPN a tlbfill run from e uses
TlbfillPs(e) ==
    IF e.CSR.TLBRERA.ISTLBR = 1 THEN e.CSR.TLBREHI.PS
    ELSE get_effective_csr(e, "TLBIDX").PS
TlbfillVppn(e) ==
    IF e.CSR.TLBRERA.ISTLBR = 1 THEN e.CSR.TLBREHI.VPPN
    ELSE get_effective_csr(e, "TLBEHI").VPPN

\* the indexes a tlbfill run from e may write: the ways of the STLB set of its
\* VPN when its page size is STLBPS, the MTLB otherwise
TlbfillTargets(e) ==
    IF TlbfillPs(e) = e.CSR.STLBPS.PS
    THEN LET vpn == (TlbfillVppn(e) * Pow2(R_TLB_MISC_VPPN_SHIFT))
                        \div Pow2(e.CSR.STLBPS.PS + 1)
         IN  {way * STLB_SETS + (vpn % STLB_SETS) : way \in 0 .. (STLB_WAYS - 1)}
    ELSE LOONGARCH_STLB .. (LOONGARCH_TLB_MAX - 1)

\* C27: for every random value, tlbfill with page size equal to STLBPS writes
\* exactly one entry, in a way of the STLB set of its VPN; with any other page
\* size it writes exactly one entry of the MTLB; the new entry has E = 1 and the
\* current effective GID.
C27_TlbfillPlacesOneEntry ==
    last.op = "helper_tlbfill" =>
        \E index \in TlbfillTargets(last.pre) :
            /\ \A i \in TLBIndexes \ {index} : env.tlb[i] = last.pre.tlb[i]
            /\ env.tlb[index].tlb_misc.E = 1
            /\ env.tlb[index].tlb_misc.GID = get_current_guest_id(last.pre)

\* a guest's tlbfill has put a new entry, tagged with its GID, in the STLB
C27_Witness ==
    /\ last.op = "helper_tlbfill"
    /\ TlbfillPs(last.pre) = last.pre.CSR.STLBPS.PS
    /\ is_guest_mode(last.pre)
    /\ \E index \in TlbfillTargets(last.pre) :
           /\ env.tlb[index] # last.pre.tlb[index]
           /\ env.tlb[index].tlb_misc.GID = get_guest_id(last.pre)
           /\ env.tlb[index].tlb_misc.VPPN = TlbfillVppn(last.pre)

\* the enabled global entries of the current context whose page covers the
\* address the invalidation names
GlobalEntriesCovering ==
    {i \in TLBIndexes :
        /\ last.pre.tlb[i].tlb_misc.E = 1
        /\ last.pre.tlb[i].tlb_entry0.G = 1
        /\ last.pre.tlb[i].tlb_entry1.G = 1
        /\ tlb_entry_matches_guest(last.pre, last.pre.tlb[i])
        /\ tlb_ps_of(last.pre, i) >= 12
        /\ vpn_matches(Args[2].lo, last.pre.tlb[i].tlb_misc.VPPN,
                       tlb_ps_of(last.pre, i), FALSE)}

\* C28: for an enabled entry with G = 1 whose page covers addr and whose GID
\* matches the current context, invtlb_page_asid(asid, addr) leaves the entry
\* enabled for every asid, and invtlb_page_asid_or_g(asid, addr) clears its E
\* bit for every asid.
C28_GlobalEntryAndPageInvalidation ==
    /\ last.op = "helper_invtlb_page_asid" =>
           \A i \in GlobalEntriesCovering : env.tlb[i] = last.pre.tlb[i]
    /\ last.op = "helper_invtlb_page_asid_or_g" =>
           \A i \in GlobalEntriesCovering : env.tlb[i].tlb_misc.E = 0

\* invtlb_page_asid_or_g has disabled a global entry whose ASID is not the one
\* it was given
C28_Witness ==
    /\ last.op = "helper_invtlb_page_asid_or_g"
    /\ \E i \in GlobalEntriesCovering :
           /\ last.pre.tlb[i].tlb_misc.ASID # Args[1]
           /\ env.tlb[i].tlb_misc.E = 0

\* a csrwr of CSR_ASID made in host mode
HostAsidWrite ==
    /\ last.op = "helper_csrwr_with_lvz"
    /\ CsrArg = "ASID"
    /\ ~is_guest_mode(last.pre)

\* the running helper has asked for a flush of the whole host-side translation
\* cache
FlushedAll == \E f \in env.flushes : f.kind = "all"

\* C29: csrwr(ASID, v) in host mode changes only the 10-bit ASID field of
\* CSR_ASID, flushes the host-side translation cache exactly when that field's
\* value changes, and leaves every TLB entry unchanged, so that a non-global
\* entry tagged with the old ASID no longer matches lookups under the new one.
C29_AsidWriteChangesAsidFieldOnly ==
    HostAsidWrite =>
        /\ env.CSR = [last.pre.CSR EXCEPT !.ASID.ASID = Args[1].ASID % Pow2(10)]
        /\ env.GCSR = last.pre.GCSR
        /\ env.tlb = last.pre.tlb
        /\ FlushedAll <=> env.CSR.ASID.ASID # last.pre.CSR.ASID.ASID
        /\ \A i \in TLBIndexes :
               (/\ env.tlb[i].tlb_entry0.G = 0
                /\ env.tlb[i].tlb_misc.ASID = last.pre.CSR.ASID.ASID
                /\ env.CSR.ASID.ASID # last.pre.CSR.ASID.ASID)
               => \A a \in AddrSample, ub \in BOOLEAN :
                      loongarch_tlb_search(env, a, ub) # <<TRUE, i>>

\* the write changed the ASID while an entry mapping VA_EVEN carried the old one
C29_Witness ==
    /\ HostAsidWrite
    /\ FlushedAll
    /\ env.CSR.ASID.ASID # last.pre.CSR.ASID.ASID
    /\ env.CSR.ASID.ASIDBITS # Args[1].ASIDBITS
    /\ \E i \in TLBIndexes :
           /\ env.tlb[i].tlb_entry0.G = 0
           /\ env.tlb[i].tlb_misc.ASID = last.pre.CSR.ASID.ASID
           /\ loongarch_tlb_search(last.pre, VA_EVEN, FALSE) = <<TRUE, i>>

\* the operations that replace or invalidate TLB entries
TlbWriteOps ==
    {"helper_tlbwr", "helper_tlbfill", "helper_invtlb_all", "helper_invtlb_all_g",
     "helper_invtlb_all_asid", "helper_invtlb_page_asid",
     "helper_invtlb_page_asid_or_g"}

\* the enabled entries the operation replaced or invalidated
EntriesReplaced ==
    {i \in TLBIndexes :
        last.pre.tlb[i].tlb_misc.E = 1 /\ env.tlb[i] # last.pre.tlb[i]}

\* the start of the even (half = 0) or odd (half = 1) page of the old entry i
OldPage(i, half) ==
    LET ps == tlb_ps_of(last.pre, i)
        va == last.pre.tlb[i].tlb_misc.VPPN * Pow2(R_TLB_MISC_VPPN_SHIFT)
    IN  (va \div Pow2(ps + 1)) * Pow2(ps + 1) + half * Pow2(ps)

\* the flushes the operation requested drop the translations of the page of
\* size 2^ps at addr cached under mmu index idx
FlushCovers(addr, ps, idx) ==
    \E f \in env.flushes :
        \/ f.kind = "all"
        \/ f.kind = "mmuidx" /\ f.idx = idx
        \/ /\ f.kind = "range"
           /\ f.idx = idx
           /\ f.addr <= addr
           /\ addr + Pow2(ps) <= f.addr + f.size

\* the valid halves of the entries replaced are flushed under the indexes idxs
OldPagesFlushed(halves, idxs) ==
    \A i \in EntriesReplaced, half \in halves, idx \in idxs :
        (IF half = 0 THEN last.pre.tlb[i].tlb_entry0.V
                     ELSE last.pre.tlb[i].tlb_entry1.V) = 1
        => FlushCovers(OldPage(i, half), tlb_ps_of(last.pre, i), idx)

\* C30: after tlbwr, tlbfill or any invtlb_* returns, the host-side translation
\* cache holds no mapping derived from a TLB entry the operation replaced or
\* invalidated, for the even and the odd page of the old entry and for every
\* mmu index.
C30_ReplacedEntryIsFlushed ==
    last.op \in TlbWriteOps =>
        OldPagesFlushed({0, 1}, {MMU_KERNEL_IDX, MMU_USER_IDX, MMU_DA_IDX})

\* C31: serializing the core state of a CPU and deserializing it into a fresh
\* CPU reproduces every host CSR, every guest CSR, the virtualization
\* registers, lvz_enabled, every vm_exit_ctx field and all TLB entries.
C31_MigrationReproducesCoreState ==
    last.op = "vmstate_loongarch_cpu" =>
        /\ env.CSR = last.pre.CSR
        /\ env.GCSR = last.pre.GCSR
        /\ env.lvz_enabled = last.pre.lvz_enabled
        /\ env.vm_exit_ctx = last.pre.vm_exit_ctx
        /\ env.tlb = last.pre.tlb

\* a translation that hit a TLB entry
TlbHit == last.op = "get_physical_address" /\ Ret.index # NoIndex

\* the half of the hit entry the address selects
HitHalf ==
    LET tlb == last.pre.tlb[Ret.index]
    IN  IF Bit(Args[1].lo, tlb_ps_of(last.pre, Ret.index)) = 1
        THEN tlb.tlb_entry1 ELSE tlb.tlb_entry0

\* the privilege rule for privilege level plv and the entry half lo
PrivilegeOk(lo, plv) ==
    IF lo.RPLV = 0 THEN plv <= lo.PLV ELSE plv = lo.PLV

\* the first failing check in the order valid, dirty-for-store, exec-inhibit,
\* read-inhibit, privilege
FirstFailing(lo, access_type, plv) ==
    IF lo.V = 0 THEN "TLBRET_INVALID"
    ELSE IF access_type = MMU_DATA_STORE /\ lo.D = 0 THEN "TLBRET_DIRTY"
    ELSE IF access_type = MMU_INST_FETCH /\ lo.NX = 1 THEN "TLBRET_XI"
    ELSE IF access_type = MMU_DATA_LOAD /\ lo.NR = 1 THEN "TLBRET_RI"
    ELSE IF ~PrivilegeOk(lo, plv) THEN "TLBRET_PE"
    ELSE "TLBRET_MATCH"

\* C32: on a TLB hit the translation returns MATCH exactly when the selected
\* half passes every check, and otherwise the first failing check in the order
\* INVALID, DIRTY (store), XI (fetch), RI (load), PE.
C32_HitChecksInOrder ==
    TlbHit => Ret.ret = FirstFailing(HitHalf, Args[2], Args[3])

\* an access the TLB fill handler could not translate
FillFailed == last.op = "loongarch_cpu_tlb_fill" /\ Ret = FALSE

\* the fault code of the access
FillFault == get_physical_address(last.pre, Args[1], Args[2], Args[3], Args[5]).ret

\* the exception the fault code and the access type stand for
FaultException(fault, access_type) ==
    CASE fault = "TLBRET_BADADDR" ->
             IF access_type = MMU_INST_FETCH THEN EXCCODE_ADEF ELSE EXCCODE_ADEM
      [] fault \in {"TLBRET_NOMATCH", "TLBRET_INVALID"} ->
             (CASE access_type = MMU_DATA_LOAD -> EXCCODE_PIL
                [] access_type = MMU_DATA_STORE -> EXCCODE_PIS
                [] access_type = MMU_INST_FETCH -> EXCCODE_PIF)
      [] fault = "TLBRET_DIRTY" -> EXCCODE_PME
      [] fault = "TLBRET_XI" -> EXCCODE_PNX
      [] fault = "TLBRET_RI" -> EXCCODE_PNR
      [] fault = "TLBRET_PE" -> EXCCODE_PPI

\* C33: a failed non-probe access raises the exception of its fault code;
\* exactly for NOMATCH it sets TLBRERA.ISTLBR, TLBRBADV = addr and
\* TLBREHI.VPPN = addr[47:13], for every other fault code these three registers
\* are unchanged; a failed probe access changes no state.
C33_FaultRaisesItsException ==
    FillFailed =>
        IF Args[4] THEN env = last.pre
        ELSE /\ env.exception_index = FaultException(FillFault, Args[2])
             /\ IF FillFault = "TLBRET_NOMATCH"
                THEN /\ env.CSR.TLBRERA.ISTLBR = 1
                     /\ env.CSR.TLBRBADV = Args[1]
                     /\ env.CSR.TLBREHI.VPPN = Args[1].lo \div Pow2(13)
                ELSE /\ env.CSR.TLBRERA = last.pre.CSR.TLBRERA
                     /\ env.CSR.TLBRBADV = last.pre.CSR.TLBRBADV
                     /\ env.CSR.TLBREHI = last.pre.CSR.TLBREHI

\* a store that hit a clean page outside a refill has raised PME and left the
\* refill registers alone
C33_Witness ==
    /\ FillFailed
    /\ ~Args[4]
    /\ FillFault = "TLBRET_DIRTY"
    /\ env.exception_index = EXCCODE_PME
    /\ env.CSR.TLBRBADV # Args[1]

\* the bank tlbsrch works on, before and after
SrchBank(e) == IF is_guest_mode(last.pre) THEN e.GCSR ELSE e.CSR

\* the virtual page pair number tlbsrch looks for (entry-high VPPN)
SrchVppn ==
    IF last.pre.CSR.TLBRERA.ISTLBR = 1 THEN last.pre.CSR.TLBREHI.VPPN
    ELSE SrchBank(last.pre).TLBEHI.VPPN

\* the entries tlbsrch may hit: in the STLB set of the VPN or in the MTLB,
\* enabled, of the current GID, global or of the effective ASID, mapping the VPN
SrchCandidates ==
    LET p == last.pre
        lo == SrchVppn * Pow2(R_TLB_MISC_VPPN_SHIFT)
        set == (lo \div Pow2(p.CSR.STLBPS.PS + 1)) % STLB_SETS
    IN  {i \in TLBIndexes :
            /\ i >= LOONGARCH_STLB \/ i % STLB_SETS = set
            /\ p.tlb[i].tlb_misc.E = 1
            /\ p.tlb[i].tlb_misc.GID = (IF is_guest_mode(p) THEN p.CSR.GSTAT.GID ELSE 0)
            /\ p.tlb[i].tlb_entry0.G = 1 \/ p.tlb[i].tlb_misc.ASID = SrchBank(p).ASID.ASID
            /\ vpn_matches(lo, p.tlb[i].tlb_misc.VPPN, tlb_ps_of(p, i), Args[1])}

\* C34: tlbsrch hits exactly when an enabled entry of the current GID, global
\* or of the effective ASID, in the STLB set of the VPN or in the MTLB maps
\* the VPN; on a hit the effective TLBIDX.INDEX is such an entry and NE is 0,
\* on a miss NE is 1 and INDEX is unchanged; no TLB entry and no CSR of the
\* other bank changes.
C34_TlbsrchFindsOwnEntry ==
    last.op = "helper_tlbsrch" =>
        /\ IF SrchCandidates # {}
           THEN /\ SrchBank(env).TLBIDX.INDEX \in SrchCandidates
                /\ SrchBank(env).TLBIDX.NE = 0
           ELSE /\ SrchBank(env).TLBIDX.NE = 1
                /\ SrchBank(env).TLBIDX.INDEX = SrchBank(last.pre).TLBIDX.INDEX
        /\ env.tlb = last.pre.tlb
        /\ IF is_guest_mode(last.pre) THEN env.CSR = last.pre.CSR
           ELSE env.GCSR = last.pre.GCSR

\* a guest's tlbsrch has hit its own entry while an enabled entry of another
\* guest maps the same page
C34_Witness ==
    /\ last.op = "helper_tlbsrch"
    /\ is_guest_mode(last.pre)
    /\ SrchCandidates # {}
    /\ env.GCSR.TLBIDX.INDEX \in SrchCandidates
    /\ \E i \in TLBIndexes \ SrchCandidates :
           /\ last.pre.tlb[i].tlb_misc.E = 1
           /\ last.pre.tlb[i].tlb_misc.GID # last.pre.CSR.GSTAT.GID
           /\ last.pre.tlb[i].tlb_misc.VPPN = SrchVppn

\* the bank tlbrd works on, before and after
RdBank(e) == IF is_guest_mode(last.pre) THEN e.GCSR ELSE e.CSR

\* the entry tlbrd reads
RdIndex == RdBank(last.pre).TLBIDX.INDEX

\* the entry read is enabled and carries the current GID
RdReadable ==
    LET tlb == last.pre.tlb[RdIndex]
    IN  /\ tlb.tlb_misc.E = 1
        /\ tlb.tlb_misc.GID = (IF is_guest_mode(last.pre) THEN last.pre.CSR.GSTAT.GID
                               ELSE 0)

\* C35: tlbrd of an entry that is disabled or of another GID clears the
\* effective TLBEHI, TLBELO0, TLBELO1, ASID field and TLBIDX.PS and sets NE;
\* otherwise it clears NE and copies the entry's VPPN, ASID, PS, entry0 and
\* entry1 into the effective TLBEHI, ASID, TLBIDX.PS, TLBELO0 and TLBELO1.
C35_TlbrdCopiesOrClears ==
    (last.op = "helper_tlbrd" /\ RdIndex \in TLBIndexes) =>
        LET tlb == last.pre.tlb[RdIndex]
            b == RdBank(env)
        IN  IF RdReadable
            THEN /\ b.TLBIDX.NE = 0
                 /\ b.TLBEHI.VPPN = tlb.tlb_misc.VPPN
                 /\ b.ASID.ASID = tlb.tlb_misc.ASID
                 /\ b.TLBIDX.PS = tlb_ps_of(last.pre, RdIndex)
                 /\ b.TLBELO0 = tlb.tlb_entry0
                 /\ b.TLBELO1 = tlb.tlb_entry1
            ELSE /\ b.TLBIDX.NE = 1
                 /\ b.TLBEHI.VPPN = 0
                 /\ b.ASID.ASID = 0
                 /\ b.TLBIDX.PS = 0
                 /\ b.TLBELO0 = TlbLoZero
                 /\ b.TLBELO1 = TlbLoZero

\* the bulk invalidations
BulkOps ==
    {"helper_tlbflush", "helper_tlbclr", "helper_invtlb_all", "helper_invtlb_all_g",
     "helper_invtlb_all_asid"}

\* the entries the selector of the bulk invalidation that ran picks in p
BulkSelected(p) ==
    LET bank == IF is_guest_mode(p) THEN p.GCSR ELSE p.CSR
        index == bank.TLBIDX.INDEX
        line == IF index < LOONGARCH_STLB
                THEN {i \in 0 .. (LOONGARCH_STLB - 1) : i % STLB_SETS = index % STLB_SETS}
                ELSE IF index < LOONGARCH_TLB_MAX
                THEN {i \in TLBIndexes : i >= LOONGARCH_STLB}
                ELSE {}
    IN  CASE last.op = "helper_tlbflush" -> line
          [] last.op = "helper_tlbclr" ->
                 {i \in line : /\ p.tlb[i].tlb_entry0.G = 0
                               /\ p.tlb[i].tlb_misc.ASID = bank.ASID.ASID}
          [] last.op = "helper_invtlb_all" -> TLBIndexes
          [] last.op = "helper_invtlb_all_g" ->
                 {i \in TLBIndexes : p.tlb[i].tlb_entry0.G = Args[1]}
          [] last.op = "helper_invtlb_all_asid" ->
                 {i \in TLBIndexes : /\ p.tlb[i].tlb_entry0.G = 0
                                     /\ p.tlb[i].tlb_misc.ASID = Args[1]}

\* the entries of p that carry the current GID
OwnEntries(p) ==
    {i \in TLBIndexes :
        p.tlb[i].tlb_misc.GID = (IF is_guest_mode(p) THEN p.CSR.GSTAT.GID ELSE 0)}

\* C36: a bulk invalidation clears the E bit of exactly the entries its
\* selector picks among the entries of the current GID, and changes no other
\* bit of any entry.
C36_BulkInvalidationSelects ==
    last.op \in BulkOps =>
        \A i \in TLBIndexes :
            env.tlb[i] =
                IF i \in BulkSelected(last.pre) \cap OwnEntries(last.pre)
                THEN [last.pre.tlb[i] EXCEPT !.tlb_misc.E = 0]
                ELSE last.pre.tlb[i]

\* a guest's bulk invalidation has disabled an entry of its own and kept an
\* enabled entry of another GID that its selector picks
C36_Witness ==
    /\ last.op \in BulkOps
    /\ is_guest_mode(last.pre)
    /\ \E i \in TLBIndexes : last.pre.tlb[i].tlb_misc.E = 1 /\ env.tlb[i].tlb_misc.E = 0
    /\ \E i \in BulkSelected(last.pre) \ OwnEntries(last.pre) :
           env.tlb[i].tlb_misc.E = 1

\* the half of the register pair a tlbfill run from p installs for address a
FilledHalf(p, a) ==
    IF Bit(a.lo, TlbfillPs(p)) = 1 THEN get_effective_csr(p, "TLBELO1")
    ELSE get_effective_csr(p, "TLBELO0")

\* the half lo allows the access of type access_type at privilege level plv
AccessAllowed(lo, access_type, plv) ==
    /\ lo.V = 1
    /\ access_type = MMU_DATA_STORE => lo.D = 1
    /\ access_type = MMU_INST_FETCH => lo.NX = 0
    /\ access_type = MMU_DATA_LOAD => lo.NR = 0
    /\ PrivilegeOk(lo, plv)

\* a tlbfill has installed, from the effective registers, a non-global mapping,
\* and the next step translates through the TLB an address of one of its pages
\* that the mapping allows the access to
TlbfillThenTranslate ==
    LET p == last.pre
        a == Args'[1]
    IN  /\ last.op = "helper_tlbfill"
        /\ last'.op = "get_physical_address"
        /\ p.CSR.TLBRERA.ISTLBR = 0
        /\ TlbfillPs(p) >= 12
        /\ get_effective_csr(p, "TLBELO0").G = 0
        /\ get_effective_csr(p, "TLBELO1").G = 0
        /\ ~(env.CSR.CRMD.DA = 1 /\ env.CSR.CRMD.PG = 0)
        /\ NoDmwMatch(env, a, Args'[3])
        /\ a.hi = 0
        /\ a.lo \div Pow2(TlbfillPs(p) + 1)
               = (TlbfillVppn(p) * Pow2(R_TLB_MISC_VPPN_SHIFT)) \div Pow2(TlbfillPs(p) + 1)
        /\ AccessAllowed(FilledHalf(p, a), Args'[2], Args'[3])

\* the physical address the installed mapping gives address a
FilledPhysical(p, a) ==
    LET ps == TlbfillPs(p)
    IN  Addr(0, (FilledHalf(p, a).PPN \div Pow2(ps - 12)) * Pow2(ps)
                    + (a.lo % Pow2(ps)))

\* C37: after tlbfill installs a non-global mapping from the effective
\* registers, a following translation of an address in one of its pages, in the
\* same mode and with no CSR changed in between, returns MATCH with the
\* installed physical page, in host mode and in guest mode.
C37_TlbfillThenTranslationHits ==
    [][TlbfillThenTranslate =>
           /\ Ret'.ret = "TLBRET_MATCH"
           /\ Ret'.physical = FilledPhysical(last.pre, Args'[1])]_vars

\* tlbrd or tlbwr has run with an effective TLBIDX.INDEX outside the TLB
IndexOutsideTlb ==
    /\ last.op \in {"helper_tlbrd", "helper_tlbwr"}
    /\ get_effective_csr(last.pre, "TLBIDX").INDEX >= LOONGARCH_TLB_MAX

\* C38: with an effective TLBIDX.INDEX of TLB_MAX or more, tlbrd and tlbwr
\* access no slot outside the TLB array: the array and the memory that follows
\* it are as they were.
C38_NoAccessOutsideTlb ==
    IndexOutsideTlb => env.tlb = last.pre.tlb /\ env.beyond = last.pre.beyond

\* gtlbfill has installed an entry
GtlbfillDone ==
    /\ last.op = "helper_gtlbfill"
    /\ is_guest_mode(last.pre)
    /\ has_lvz_capability(last.pre)

\* the STLB set of the page of GCSR_TLBEHI, as tlbfill and the searches index it
GtlbfillSet(p) ==
    ((p.GCSR.TLBEHI.VPPN * Pow2(R_TLB_MISC_VPPN_SHIFT))
         \div Pow2(p.CSR.STLBPS.PS + 1)) % STLB_SETS

\* C39: for every random value drawn, gtlbfill places its entry in a way of the
\* STLB set of the page of GCSR_TLBEHI.
C39_GtlbfillPlacesInSetOfVpn ==
    GtlbfillDone =>
        /\ env.GCSR.TLBIDX.INDEX < LOONGARCH_STLB
        /\ env.GCSR.TLBIDX.INDEX % STLB_SETS = GtlbfillSet(last.pre)
        /\ env.tlb[env.GCSR.TLBIDX.INDEX] = GuestTlbEntry(last.pre)

\* the last helper was a gcsrrd, gcsrwr or gcsrxchg executed in guest mode
GuestBankAccess ==
    /\ last.op \in {"helper_gcsrrd", "helper_gcsrwr", "helper_gcsrxchg"}
    /\ is_guest_mode(last.pre)

\* C40: in guest mode a gcsrrd, gcsrwr or gcsrxchg causes a VM-exit exactly when
\* check_csr_access_permission denies the access of the same direction to the
\* same CSR under the same GCFG.
C40_GuestBankAccessTrapsAsPermission ==
    GuestBankAccess =>
        (env.vm_exit_path # "none"
             <=> ~check_csr_access_permission(last.pre, CsrArg,
                                              last.op # "helper_gcsrrd"))

=============================================================================
